---- MODULE Spec2Model ----
(***************************************************************************)
(* The LLM orchestration engine of chromium-daily-digest:                  *)
(* generateSummaryWithStrategy (services/llmService.ts) driving one of the *)
(* two platform adapters (GeminiAdapter, NexosAdapter) and the tool        *)
(* executor executeToolCalls.                                              *)
(*                                                                         *)
(* Strings are modelled as records [tag, data]: the tag names the kind of  *)
(* text and data carries the part of the text the code looks at (the       *)
(* identifiers of a prompt, the JSON payload of a tool result, ...).       *)
(* A commit is modelled by its identifier (a number).                      *)
(***************************************************************************)
EXTENDS Integers, Sequences, FiniteSets, TLC

\* ------------------------------------------------------------------------
\* Program constants
\* ------------------------------------------------------------------------
MAX_ITERATIONS == 10

CHUNK_THRESHOLD == 300

CHUNK_SIZE == 250

MAX_CHUNK_ITERATIONS == 5

\* Retry configuration of the Gemini service
MAX_API_RETRIES == 10

\* concurrent requests of the Detail Fetcher
BATCH_SIZE == 5

\* ------------------------------------------------------------------------
\* Bounds of the model
\* ------------------------------------------------------------------------
\* largest batch of the orchestration specification
MaxCommits == 520

\* largest batch of the chunking specification
MaxChunkInput == 760

\* number of distinct plain texts the remote model may answer with
NumTexts == 2

\* longest invocation list of the Tool Executor specification
MaxToolCalls == 3

\* ------------------------------------------------------------------------
\* Texts
\* ------------------------------------------------------------------------
Txt(tag, data) == [tag |-> tag, data |-> data]

EmptyText == Txt("empty", <<>>)

NoValue == Txt("none", <<>>)

\* commit hashes the Detail Fetcher cannot fetch (unknown to the host):
\* fetchCommitDetail throws for them
UnknownHashes == {0}

Adapters == {"gemini", "nexos"}

VARIABLES
  adapter,        \* which PlatformAdapter instance drives the generation
  commits,        \* the input batch
  pc,             \* position of generateSummaryWithStrategy
  messages,       \* the adapter's conversation (chatHistory / messages)
  chunks,         \* const chunks
  idx,            \* chunk loop index (0-based, as in the code)
  chunkSummaries, \* const chunkSummaries
  iteration,      \* let iteration
  chunkComplete,  \* let chunkComplete
  result,         \* value the promise resolves to
  error,          \* reason the promise is rejected with
  lastCall,       \* observation: the most recent adapter call
  lastExec,       \* observation: the most recent run of the Tool Executor
  obs,            \* observation: counters of the current chunk / generation
  toolCalls,      \* executeToolCalls: parameter toolCalls
  tcIndex,        \* executeToolCalls: invocations the for loop has visited
  responses,      \* executeToolCalls: const responses
  fetched,        \* observation: lists handed to fetchMultipleCommitDetails
  execPc,         \* position of executeToolCalls
  attempt,        \* generateContentWithRetry: let attempt
  retryPc,        \* position of GeminiAdapter.callAPI / generateContentWithRetry
  remoteCalls,    \* observation: ai.models.generateContent calls made
  lastError,      \* the error caught by the most recent catch block
  thrownError,    \* the error callAPI rejects with
  sent,           \* observation: contents of the most recent remote call
  contentsAtCall, \* observation: chatHistory when callAPI was entered
  phase,          \* executePhasedAnalysis: phase of the most recent call
  response,       \* executePhasedAnalysis: let response
  potentialBreakingCommits, \* executePhasedAnalysis: the parsed candidates
  runs,           \* one generation per adapter, driven by the same answers
  fetchRound,     \* the commit_hashes lists of one tool round, in order
  inv,            \* executeToolCalls: the invocation being served (1-based)
  offset,         \* fetchMultipleCommitDetails: let i
  pending,        \* positions of the batch Promise.all is waiting for
  inFlight,       \* fetchCommitDetail calls started and not yet settled
  results,        \* fetchMultipleCommitDetails: const results
  outcomes,       \* what each served invocation ended with
  fetchPc,        \* position of fetchMultipleCommitDetails
  lastOp,         \* the adapter operation performed last
  builder,        \* the prompt builder under test
  promptInput,    \* its input batch
  promptOutput,   \* the identifiers its output embeds
  services,       \* the LLMService constructions attempted, in order
  script,         \* which workflow script runs
  flowPc,         \* position of the script's run()
  flowIn,         \* what the script finds: commits of the day, daily files
  files,          \* the output directory: file name -> version written
  flowLog,        \* observation: generation calls and file writes of the run
  flowK,          \* generate-weeklies: position of the for loop over the weeks
  weeklySummaries, \* generate-weeklies: weeks with a newly generated summary
  filteredCommits, \* generate-page: const filteredCommits
  parseIn,        \* the lines of a phase-1 answer
  parseOut,       \* the candidates parsed from them
  stream,         \* the lines of a Nexos response body
  streamPc,       \* position of the stream handling of NexosAdapter.callAPI
  streamPos,      \* lines read (reading) or processed (merging) so far
  toolCallsMap,   \* const toolCallsMap
  fullContent,    \* let fullContent
  returned        \* what callAPI has returned to its caller

strategyVars == <<adapter, commits, pc, messages, chunks, idx, chunkSummaries,
                  iteration, chunkComplete, result, error, lastCall, lastExec,
                  obs>>

execVars == <<toolCalls, tcIndex, responses, fetched, execPc>>

retryVars == <<attempt, retryPc, remoteCalls, lastError, thrownError, sent,
               contentsAtCall>>

phasedVars == <<phase, response, potentialBreakingCommits>>

pairVars == <<runs>>

fetchVars == <<fetchRound, inv, offset, pending, inFlight, results, outcomes,
               fetchPc>>

adapterVars == <<lastOp>>

promptVars == <<builder, promptInput, promptOutput>>

serviceVars == <<services>>

workflowVars == <<script, flowPc, flowIn, files, flowLog, flowK,
                 weeklySummaries, filteredCommits>>

parseVars == <<parseIn, parseOut>>

streamVars == <<stream, streamPc, streamPos, toolCallsMap, fullContent,
                returned>>

moreVars == <<serviceVars, workflowVars, parseVars, streamVars>>

auxVars == <<pairVars, fetchVars, adapterVars, promptVars, moreVars>>

vars == <<strategyVars, execVars, retryVars, phasedVars, auxVars>>

\* ------------------------------------------------------------------------
\* Prompt builders (what each prompt embeds)
\* ------------------------------------------------------------------------
createAgenticPrompt(cs) == Txt("agenticPrompt", cs)

RECURSIVE ConcatData(_)
ConcatData(ss) ==
  IF ss = <<>> THEN <<>> ELSE Head(ss).data \o ConcatData(Tail(ss))

\* a synthesis prompt that embeds only the first chunk summary
createFinalSummaryFromChunksPrompt_firstOnly(summaries) ==
  Txt("synthesisPrompt", Head(summaries).data)

\* a synthesis prompt that lists the chunk summaries last to first
createFinalSummaryFromChunksPrompt_reversed(summaries) ==
  Txt("synthesisPrompt",
      ConcatData([i \in 1..Len(summaries) |->
                    summaries[Len(summaries) + 1 - i]]))

createFinalSummaryFromChunksPrompt(summaries) ==
  Txt("synthesisPrompt", ConcatData(summaries))

createFinalJsonPrompt == Txt("finalJsonPrompt", <<>>)

FallbackPrompt == Txt("fallbackPrompt", <<>>)

\* ------------------------------------------------------------------------
\* JSON.parse
\* ------------------------------------------------------------------------
\* a parse that accepts any text
JSONparseThrows_never(text) == FALSE

\* JSON.parse succeeds exactly on texts that are JSON documents
JSONparseThrows(text) == text.tag \notin {"json", "jsonNoHashes"}

JSONparse(text) == Txt("value", text.data)

\* A JSON document is modelled by one number: 1 when it has the fields of a
\* StructuredSummary (title, overview, categories), 0 when fields are missing
\* (the document {}).
MatchesShape(value) == value.tag = "value" /\ value.data = <<1>>

\* ------------------------------------------------------------------------
\* Detail Fetcher and Tool Executor
\* ------------------------------------------------------------------------
ToolCall(id, name, hashes) ==
  [id |-> id, name |-> name, arguments |-> Txt("json", hashes)]

\* Promise.all over fetchCommitDetail: rejects when one fetch throws
fetchMultipleCommitDetailsThrows(hashes) ==
  \E i \in 1..Len(hashes) : hashes[i] \in UnknownHashes

\* args.commit_hashes is undefined (the document has no such field), so
\* commitHashes.length throws a TypeError
commitHashesMissing(arguments) == arguments.tag = "jsonNoHashes"

\* a fetch of only the first requested identifier
ToolStep_firstHashOnly(tc) ==
  IF JSONparseThrows(tc.arguments) \/ commitHashesMissing(tc.arguments)
    THEN [fetch |-> <<>>, response |-> Txt("toolError", <<>>),
          escaped |-> FALSE]
  ELSE LET hashes == SubSeq(JSONparse(tc.arguments).data, 1, 1)
       IN [fetch |-> <<hashes>>,
           response |-> IF fetchMultipleCommitDetailsThrows(hashes)
                          THEN Txt("toolError", <<>>)
                        ELSE Txt("toolResult", hashes),
           escaped |-> FALSE]

\* a body that parses the arguments before entering the try block
ToolStep_parseOutsideTry(tc) ==
  IF JSONparseThrows(tc.arguments)
    THEN [fetch |-> <<>>, response |-> Txt("toolError", <<>>),
          escaped |-> TRUE]
  ELSE IF commitHashesMissing(tc.arguments)
    THEN [fetch |-> <<>>, response |-> Txt("toolError", <<>>),
          escaped |-> FALSE]
  ELSE LET hashes == JSONparse(tc.arguments).data
       IN [fetch |-> <<hashes>>,
           response |-> IF fetchMultipleCommitDetailsThrows(hashes)
                          THEN Txt("toolError", <<>>)
                        ELSE Txt("toolResult", hashes),
           escaped |-> FALSE]

\* body of the for loop for one get_commit_details invocation: the
\* identifier list handed to the Detail Fetcher (none when the arguments do
\* not parse or carry no list), the text block pushed to responses, and
\* whether an exception leaves the try/catch (everything that can throw is
\* inside the try block, so none does)
ToolStep(tc) ==
  IF JSONparseThrows(tc.arguments) \/ commitHashesMissing(tc.arguments)
    THEN [fetch |-> <<>>, response |-> Txt("toolError", <<>>),
          escaped |-> FALSE]
  ELSE LET hashes == JSONparse(tc.arguments).data
       IN [fetch |-> <<hashes>>,
           response |-> IF fetchMultipleCommitDetailsThrows(hashes)
                          THEN Txt("toolError", <<>>)
                        ELSE Txt("toolResult", hashes),
           escaped |-> FALSE]

\* the for loop: invocations with another name are skipped
RECURSIVE ToolSteps(_)
ToolSteps(tcs) ==
  IF tcs = <<>> THEN <<>>
  ELSE IF Head(tcs).name = "get_commit_details"
    THEN IF ToolStep(Head(tcs)).escaped
           THEN <<ToolStep(Head(tcs))>>
         ELSE <<ToolStep(Head(tcs))>> \o ToolSteps(Tail(tcs))
  ELSE ToolSteps(Tail(tcs))

\* an exception leaves executeToolCalls
executeToolCallsThrows(tcs) ==
  \E i \in 1..Len(ToolSteps(tcs)) : ToolSteps(tcs)[i].escaped

\* the returned responses
executeToolCalls(tcs) ==
  [i \in 1..Len(ToolSteps(tcs)) |-> ToolSteps(tcs)[i].response]

\* the identifier lists handed to the Detail Fetcher, in order
RECURSIVE FetchesOf(_)
FetchesOf(steps) ==
  IF steps = <<>> THEN <<>> ELSE Head(steps).fetch \o FetchesOf(Tail(steps))

FetchRequests(tcs) == FetchesOf(ToolSteps(tcs))

\* ------------------------------------------------------------------------
\* Platform adapters
\* ------------------------------------------------------------------------
Turn(role, kind, content, tcs) ==
  [role |-> role, kind |-> kind, content |-> content, toolCalls |-> tcs]

\* a reset that keeps the conversation
resetMessages_keeps == messages

\* a reset that drops the conversation but for its oldest turn
resetMessages_keepsFirst ==
  IF messages = <<>> THEN <<>> ELSE <<messages[1]>>

resetMessages == <<>>

\* getMessages(): the adapter's conversation
getMessages == messages

\* content.split('\n').slice(1).join('\n'): the text after the first line
AfterFirstLine(content) ==
  IF content.tag = "toolResult" THEN Txt("json", content.data) ELSE EmptyText

GeminiAddMessageThrows(role, content) ==
  role = "tool" /\ JSONparseThrows(AfterFirstLine(content))

\* an addMessage that records the assistant turn a second time
GeminiAddMessage_pushesAssistant(hist, role, content, tcs) ==
  IF role = "tool"
    THEN Append(hist, Turn("user", "functionResponse",
                           JSONparse(AfterFirstLine(content)), <<>>))
  ELSE IF role = "user"
    THEN Append(hist, Turn("user", "text", content, <<>>))
  ELSE Append(hist, Turn("model", "parts", content, tcs))

GeminiAddMessage(hist, role, content, tcs) ==
  IF role = "tool"
    THEN Append(hist, Turn("user", "functionResponse",
                           JSONparse(AfterFirstLine(content)), <<>>))
  ELSE IF role = "user"
    THEN Append(hist, Turn("user", "text", content, <<>>))
  ELSE hist

NexosAddMessageThrows(role, content) == FALSE

NexosAddMessage(hist, role, content, tcs) ==
  IF role = "tool"
    THEN Append(hist, Turn("user", "text", content, <<>>))
  ELSE Append(hist, Turn(IF role = "assistant" THEN "assistant" ELSE "user",
                         "text", content, tcs))

addMessageThrows(ad, role, content) ==
  IF ad = "gemini" THEN GeminiAddMessageThrows(role, content)
  ELSE NexosAddMessageThrows(role, content)

addMessage(ad, hist, role, content, tcs) ==
  IF ad = "gemini" THEN GeminiAddMessage(hist, role, content, tcs)
  ELSE NexosAddMessage(hist, role, content, tcs)

\* the conversation after callAPI returned resp
GeminiCallAPI(hist, resp) ==
  Append(hist, Turn("model", "parts", resp.content, resp.toolCalls))

NexosCallAPI(hist, resp) == hist

callAPI(ad, hist, resp) ==
  IF ad = "gemini" THEN GeminiCallAPI(hist, resp) ELSE NexosCallAPI(hist, resp)

\* for (const toolResponse of toolResponses) adapter.addMessage('tool', ...)
\* stops at the first addMessage that throws
RECURSIVE AddToolTurns(_, _, _)
AddToolTurns(ad, hist, resps) ==
  IF resps = <<>> THEN [hist |-> hist, thrown |-> FALSE]
  ELSE IF addMessageThrows(ad, "tool", Head(resps))
    THEN [hist |-> hist, thrown |-> TRUE]
  ELSE AddToolTurns(ad, addMessage(ad, hist, "tool", Head(resps), <<>>),
                    Tail(resps))

\* ------------------------------------------------------------------------
\* The remote model (environment)
\* ------------------------------------------------------------------------
Response(content, tcs) == [ok |-> TRUE, content |-> content, toolCalls |-> tcs]

\* callAPI rejects: non-retryable provider error or retries exhausted
Thrown == [ok |-> FALSE, content |-> EmptyText, toolCalls |-> <<>>]

\* the tool rounds the model may ask for
ToolRounds ==
  { <<ToolCall(1, "get_commit_details", <<1, 2, 3>>)>>,
    <<ToolCall(2, "get_commit_details", <<0>>),
      ToolCall(3, "get_commit_details", <<1>>)>> }

\* Gemini is given a responseSchema with the required fields, Nexos only
\* response_format json_object
JsonShapes(ad) ==
  IF ad = "gemini" THEN {1} ELSE {0, 1}

RemoteOutcomes(ad, options) ==
  {Thrown} \cup
  IF options.requestJson
    THEN {Response(Txt("json", <<s>>), <<>>) : s \in JsonShapes(ad)}
         \cup {Response(Txt("text", <<0>>), <<>>)}
  ELSE IF options.enableTools
    THEN {Response(Txt("text", <<t>>), <<>>) : t \in 1..NumTexts}
         \cup {Response(EmptyText, r) : r \in ToolRounds}
  ELSE {Response(Txt("text", <<t>>), <<>>) : t \in 1..NumTexts}

\* ------------------------------------------------------------------------
\* generateSummaryWithStrategy
\* ------------------------------------------------------------------------
\* investigation calls that ask for JSON
InvestigateOptions_json == [enableTools |-> TRUE, requestJson |-> TRUE]

InvestigateOptions == [enableTools |-> TRUE, requestJson |-> FALSE]

\* a fallback call that leaves the tools enabled
FallbackOptions_withTools == [enableTools |-> TRUE, requestJson |-> FALSE]

FallbackOptions == [enableTools |-> FALSE, requestJson |-> FALSE]

\* a final call without JSON mode
FinalOptions_noJson == [enableTools |-> FALSE, requestJson |-> FALSE]

FinalOptions == [enableTools |-> FALSE, requestJson |-> TRUE]

\* a decision that already chunks a batch of exactly the threshold
needsChunking_atThreshold(cs) == Len(cs) >= CHUNK_THRESHOLD

needsChunking(cs) == Len(cs) > CHUNK_THRESHOLD

\* a slice that loses its last element
Slice_short(cs, from, to) ==
  SubSeq(cs, from + 1, IF to - 1 < Len(cs) THEN to - 1 ELSE Len(cs))

\* commits.slice(from, to) with 0-based from, exclusive to
Slice(cs, from, to) ==
  SubSeq(cs, from + 1, IF to < Len(cs) THEN to ELSE Len(cs))

\* for (let i = 0; i < commits.length; i += CHUNK_SIZE) chunks.push(slice)
RECURSIVE SplitFrom(_, _)
SplitFrom(cs, i) ==
  IF i < Len(cs)
    THEN <<Slice(cs, i, i + CHUNK_SIZE)>> \o SplitFrom(cs, i + CHUNK_SIZE)
  ELSE <<>>

SplitIntoChunks(cs) == SplitFrom(cs, 0)

\* a loop that runs once more
LoopCond_inclusive(it) == it <= MAX_ITERATIONS

\* a handler that swallows the rejection and goes on to the final step
AfterRejection_swallowed == "final"

\* an awaited callAPI that rejects is inside no try block, so the promise of
\* generateSummaryWithStrategy rejects and no later statement runs
AfterRejection == "failed"

\* a loop that runs twice more
LoopCond_twoMore(it) == it < MAX_ITERATIONS + 2

\* while (iteration < MAX_ITERATIONS), the condition of both loops
LoopCond(it) == it < MAX_ITERATIONS

HasToolCalls(resp) == Len(resp.toolCalls) > 0

NoExec == [ran |-> FALSE, calls |-> <<>>, fetches |-> <<>>, responses |-> <<>>]

Exec(tcs) ==
  [ran |-> TRUE, calls |-> tcs, fetches |-> FetchRequests(tcs),
   responses |-> executeToolCalls(tcs)]

\* the branch "response.toolCalls && response.toolCalls.length > 0":
\* assistant turn, tool execution, one tool turn per response
ToolBranch(ad, hist, resp) ==
  LET turns == AddToolTurns(ad, addMessage(ad, hist, "assistant",
                                           resp.content, resp.toolCalls),
                            executeToolCalls(resp.toolCalls))
  IN [hist |-> turns.hist, thrown |-> turns.thrown,
      exec |-> Exec(resp.toolCalls)]

\* ---- observations ------------------------------------------------------
NoCall ==
  [made |-> FALSE, msgs |-> <<>>, options |-> InvestigateOptions,
   ok |-> FALSE, content |-> EmptyText, toolCalls |-> <<>>]

Call(hist, options, out) ==
  [made |-> TRUE, msgs |-> hist, options |-> options,
   ok |-> out.ok, content |-> out.content, toolCalls |-> out.toolCalls]

Obs0 ==
  [loopCalls |-> 0, fallbackCalls |-> 0, fallbackPrompts |-> 0,
   toolRounds |-> 0, execCount |-> 0, jsonCalls |-> 0, natural |-> FALSE,
   sinceReset |-> 0]

\* counters after an adapter call with these options and this outcome
CountCall(o, options, out) ==
  [o EXCEPT
     !.loopCalls = @ + (IF options.enableTools THEN 1 ELSE 0),
     !.fallbackCalls =
        @ + (IF ~options.enableTools /\ ~options.requestJson THEN 1 ELSE 0),
     !.jsonCalls = @ + (IF options.requestJson THEN 1 ELSE 0),
     !.toolRounds = @ + (IF out.ok /\ HasToolCalls(out) THEN 1 ELSE 0),
     !.sinceReset = @ + 1]

\* ---- actions -----------------------------------------------------------
Batch(n) == [i \in 1..n |-> i]

Reversed(n) == [i \in 1..n |-> n + 1 - i]

BatchSizes == {1, CHUNK_THRESHOLD, CHUNK_THRESHOLD + 1, MaxCommits}

InitRest ==
  /\ adapter \in Adapters
  /\ pc = "idle"
  /\ messages = <<>>
  /\ chunks = <<>>
  /\ idx = 0
  /\ chunkSummaries = <<>>
  /\ iteration = 0
  /\ chunkComplete = FALSE
  /\ result = NoValue
  /\ error = "none"
  /\ lastCall = NoCall
  /\ lastExec = NoExec
  /\ obs = Obs0

\* executeToolCalls not running
ExecRest ==
  /\ toolCalls = <<>>
  /\ tcIndex = 0
  /\ responses = <<>>
  /\ fetched = <<>>
  /\ execPc = "off"

\* an error value that stands for "no error"
NoError == [hasMessage |-> FALSE, message |-> <<>>, status |-> 0]

NoThrow == [thrown |-> FALSE, exhausted |-> FALSE, last |-> NoError]

\* no adapter call in progress
RetryRest ==
  /\ attempt = 0
  /\ retryPc = "off"
  /\ remoteCalls = 0
  /\ lastError = NoError
  /\ thrownError = NoThrow
  /\ sent = <<>>
  /\ contentsAtCall = <<>>

\* executePhasedAnalysis not running
PhasedRest ==
  /\ phase = 0
  /\ response = Thrown
  /\ potentialBreakingCommits = <<>>

\* no paired run, no fetch, no adapter operation, no prompt under test
\* no adapter operation performed yet
NoOp == [op |-> "none", before |-> <<>>]

\* no service constructed
ServiceRest == services = <<>>

\* no workflow script running
WorkflowRest ==
  /\ script = "none"
  /\ flowPc = "off"
  /\ flowIn = <<>>
  /\ files = <<>>
  /\ flowLog = <<>>
  /\ flowK = 0
  /\ weeklySummaries = {}
  /\ filteredCommits = <<>>

\* no phase-1 answer being parsed
ParseRest ==
  /\ parseIn = <<>>
  /\ parseOut = <<>>

\* no response body being handled
StreamRest ==
  /\ stream = <<>>
  /\ streamPc = "off"
  /\ streamPos = 0
  /\ toolCallsMap = <<>>
  /\ fullContent = <<>>
  /\ returned = <<>>

MoreRest ==
  /\ ServiceRest
  /\ WorkflowRest
  /\ ParseRest
  /\ StreamRest

\* no paired run, fetch round, adapter operation or prompt builder
ToolingRest ==
  /\ runs = <<>>
  /\ fetchRound = <<>>
  /\ inv = 0
  /\ offset = 0
  /\ pending = {}
  /\ inFlight = {}
  /\ results = <<>>
  /\ outcomes = <<>>
  /\ fetchPc = "off"
  /\ lastOp = NoOp
  /\ builder = "none"
  /\ promptInput = <<>>
  /\ promptOutput = <<>>

AuxRest ==
  /\ ToolingRest
  /\ MoreRest

Init ==
  /\ commits \in {Batch(n) : n \in BatchSizes}
  /\ InitRest
  /\ ExecRest
  /\ RetryRest
  /\ PhasedRest
  /\ AuxRest

\* adapter.resetMessages(); chunking decision; first prompt of the
\* non-chunked path
Start ==
  /\ pc = "idle"
  /\ IF needsChunking(commits)
       THEN /\ chunks' = SplitIntoChunks(commits)
            /\ messages' = resetMessages
            /\ pc' = "chunkStart"
       ELSE /\ chunks' = chunks
            /\ messages' = addMessage(adapter, resetMessages, "user",
                                      createAgenticPrompt(commits), <<>>)
            /\ pc' = "loop"
  /\ idx' = 0
  /\ chunkSummaries' = <<>>
  /\ iteration' = 0
  /\ lastExec' = NoExec
  /\ UNCHANGED <<adapter, commits, chunkComplete, result, error, lastCall, obs>>
  /\ UNCHANGED <<execVars, retryVars, phasedVars>>
  /\ UNCHANGED auxVars

\* head of the chunk for-loop body: reset, chunk prompt, loop variables
ChunkStart ==
  /\ pc = "chunkStart"
  /\ idx < Len(chunks)
  /\ messages' = addMessage(adapter, resetMessages, "user",
                            createAgenticPrompt(chunks[idx + 1]), <<>>)
  /\ iteration' = 0
  /\ chunkComplete' = FALSE
  /\ pc' = "chunkLoop"
  /\ lastExec' = NoExec
  /\ obs' = [Obs0 EXCEPT !.jsonCalls = obs.jsonCalls]
  /\ UNCHANGED <<adapter, commits, chunks, idx, chunkSummaries, result, error,
                 lastCall>>
  /\ UNCHANGED <<execVars, retryVars, phasedVars>>
  /\ UNCHANGED auxVars

\* one iteration of the chunk's agentic loop
ChunkIterate ==
  /\ pc = "chunkLoop"
  /\ LoopCond(iteration)
  /\ \E out \in RemoteOutcomes(adapter, InvestigateOptions) :
       LET hist1 == callAPI(adapter, messages, out)
           round == ToolBranch(adapter, hist1, out)
       IN /\ iteration' = iteration + 1
          /\ lastCall' = Call(messages, InvestigateOptions, out)
          /\ IF ~out.ok
               THEN /\ pc' = AfterRejection
                    /\ error' = "provider"
                    /\ lastExec' = lastExec
                    /\ obs' = CountCall(obs, InvestigateOptions, out)
                    /\ UNCHANGED <<messages, chunkSummaries, chunkComplete, idx>>
             ELSE IF HasToolCalls(out)
               THEN /\ messages' = round.hist
                    /\ lastExec' = round.exec
                    /\ pc' = IF round.thrown THEN "failed" ELSE "chunkLoop"
                    /\ error' = IF round.thrown THEN "addMessage" ELSE error
                    /\ obs' = [CountCall(obs, InvestigateOptions, out)
                                 EXCEPT !.execCount = @ + 1]
                    /\ UNCHANGED <<chunkSummaries, chunkComplete, idx>>
             ELSE /\ messages' = hist1
                  /\ chunkSummaries' = Append(chunkSummaries, out.content)
                  /\ chunkComplete' = TRUE
                  /\ idx' = idx + 1
                  /\ pc' = "chunkStart"
                  /\ lastExec' = lastExec
                  /\ obs' = [CountCall(obs, InvestigateOptions, out)
                               EXCEPT !.natural = TRUE]
                  /\ UNCHANGED error
  /\ UNCHANGED <<adapter, commits, chunks, result>>
  /\ UNCHANGED <<execVars, retryVars, phasedVars>>
  /\ UNCHANGED auxVars

\* if (!chunkComplete): fallback prompt, one call without tools
ChunkFallback ==
  /\ pc = "chunkLoop"
  /\ ~LoopCond(iteration)
  /\ ~chunkComplete
  /\ \E out \in RemoteOutcomes(adapter, FallbackOptions) :
       LET hist0 == addMessage(adapter, messages, "user", FallbackPrompt, <<>>)
       IN /\ lastCall' = Call(hist0, FallbackOptions, out)
          /\ obs' = [CountCall(obs, FallbackOptions, out)
                       EXCEPT !.fallbackPrompts = @ + 1]
          /\ IF ~out.ok
               THEN /\ pc' = AfterRejection
                    /\ error' = "provider"
                    /\ messages' = hist0
                    /\ UNCHANGED <<chunkSummaries, idx>>
             ELSE /\ messages' = callAPI(adapter, hist0, out)
                  /\ chunkSummaries' = Append(chunkSummaries, out.content)
                  /\ idx' = idx + 1
                  /\ pc' = "chunkStart"
                  /\ UNCHANGED error
  /\ UNCHANGED <<adapter, commits, chunks, iteration, chunkComplete, result,
                 lastExec>>
  /\ UNCHANGED <<execVars, retryVars, phasedVars>>
  /\ UNCHANGED auxVars

\* after the chunk for-loop: reset and synthesis prompt
Synthesize ==
  /\ pc = "chunkStart"
  /\ ~(idx < Len(chunks))
  /\ messages' = addMessage(adapter, resetMessages, "user",
                            createFinalSummaryFromChunksPrompt(chunkSummaries),
                            <<>>)
  /\ pc' = "final"
  /\ lastExec' = NoExec
  /\ obs' = [obs EXCEPT !.sinceReset = 0]
  /\ UNCHANGED <<adapter, commits, chunks, idx, chunkSummaries, iteration,
                 chunkComplete, result, error, lastCall>>
  /\ UNCHANGED <<execVars, retryVars, phasedVars>>
  /\ UNCHANGED auxVars

\* one iteration of the agentic loop of the non-chunked path
Iterate ==
  /\ pc = "loop"
  /\ LoopCond(iteration)
  /\ \E out \in RemoteOutcomes(adapter, InvestigateOptions) :
       LET hist1 == callAPI(adapter, messages, out)
           round == ToolBranch(adapter, hist1, out)
       IN /\ iteration' = iteration + 1
          /\ lastCall' = Call(messages, InvestigateOptions, out)
          /\ IF ~out.ok
               THEN /\ pc' = AfterRejection
                    /\ error' = "provider"
                    /\ lastExec' = lastExec
                    /\ obs' = CountCall(obs, InvestigateOptions, out)
                    /\ UNCHANGED messages
             ELSE IF HasToolCalls(out)
               THEN /\ messages' = round.hist
                    /\ lastExec' = round.exec
                    /\ pc' = IF round.thrown THEN "failed" ELSE "loop"
                    /\ error' = IF round.thrown THEN "addMessage" ELSE error
                    /\ obs' = [CountCall(obs, InvestigateOptions, out)
                                 EXCEPT !.execCount = @ + 1]
             ELSE /\ messages' = hist1
                  /\ pc' = "final"
                  /\ lastExec' = lastExec
                  /\ obs' = [CountCall(obs, InvestigateOptions, out)
                               EXCEPT !.natural = TRUE]
                  /\ UNCHANGED error
  /\ UNCHANGED <<adapter, commits, chunks, idx, chunkSummaries, chunkComplete,
                 result>>
  /\ UNCHANGED <<execVars, retryVars, phasedVars>>
  /\ UNCHANGED auxVars

\* Phase 2: final-JSON prompt, JSON-mode call, JSON.parse
FinalJson ==
  /\ \/ pc = "final"
     \/ pc = "loop" /\ ~LoopCond(iteration)
  /\ \E out \in RemoteOutcomes(adapter, FinalOptions) :
       LET hist0 == addMessage(adapter, messages, "user",
                               createFinalJsonPrompt, <<>>)
       IN /\ lastCall' = Call(hist0, FinalOptions, out)
          /\ obs' = CountCall(obs, FinalOptions, out)
          /\ IF ~out.ok
               THEN /\ pc' = AfterRejection
                    /\ error' = "provider"
                    /\ messages' = hist0
                    /\ UNCHANGED result
             ELSE IF JSONparseThrows(out.content)
               THEN /\ pc' = "failed"
                    /\ error' = "parse"
                    /\ messages' = callAPI(adapter, hist0, out)
                    /\ UNCHANGED result
             ELSE /\ pc' = "done"
                  /\ result' = JSONparse(out.content)
                  /\ messages' = callAPI(adapter, hist0, out)
                  /\ UNCHANGED error
  /\ UNCHANGED <<adapter, commits, chunks, idx, chunkSummaries, iteration,
                 chunkComplete, lastExec>>
  /\ UNCHANGED <<execVars, retryVars, phasedVars>>
  /\ UNCHANGED auxVars

Next ==
  \/ Start
  \/ ChunkStart
  \/ ChunkIterate
  \/ ChunkFallback
  \/ Synthesize
  \/ Iterate
  \/ FinalJson

Spec == Init /\ [][Next]_vars

\* every adapter call and every fetch returns or fails in the end, so a
\* step that can be taken is taken
SpecLive == Init /\ [][Next]_vars /\ WF_vars(Next)

\* ---- chunking of arbitrary batches --------------------------------------
InitChunk ==
  /\ commits \in {Batch(n) : n \in 0..MaxChunkInput}
                 \cup {Reversed(n) : n \in 0..MaxChunkInput}
  /\ InitRest
  /\ ExecRest
  /\ RetryRest
  /\ PhasedRest
  /\ AuxRest

NextChunk == Start

SpecChunk == InitChunk /\ [][NextChunk]_vars

\* ------------------------------------------------------------------------
\* executeToolCalls, statement by statement
\* ------------------------------------------------------------------------
\* the invocations a model answer may carry: the declared tool or another
\* name, with arguments that are a document with a commit_hashes list, a
\* document without one, or no JSON document at all
ToolCallArguments ==
  {Txt("json", <<1>>), Txt("json", <<0, 1>>), Txt("json", Batch(11)),
   Txt("jsonNoHashes", <<>>), Txt("garbage", <<>>)}

ToolCallInputs ==
  [id : {0}, name : {"get_commit_details", "other"},
   arguments : ToolCallArguments]

\* generateSummaryWithStrategy not running
StrategyRest ==
  /\ adapter = "nexos"
  /\ commits = <<>>
  /\ InitRest

InitTools ==
  /\ StrategyRest
  /\ toolCalls \in UNION {[1..n -> ToolCallInputs] : n \in 0..MaxToolCalls}
  /\ tcIndex = 0
  /\ responses = <<>>
  /\ fetched = <<>>
  /\ execPc = "loop"
  /\ RetryRest
  /\ PhasedRest
  /\ AuxRest

\* one pass through the body of "for (const toolCall of toolCalls)"
ExecuteNext ==
  /\ execPc = "loop"
  /\ tcIndex < Len(toolCalls)
  /\ LET toolCall == toolCalls[tcIndex + 1]
         step == ToolStep(toolCall)
     IN IF toolCall.name = "get_commit_details"
          THEN IF step.escaped
                 THEN /\ execPc' = "thrown"
                      /\ UNCHANGED <<responses, fetched>>
               ELSE /\ responses' = Append(responses, step.response)
                    /\ fetched' = fetched \o step.fetch
                    /\ execPc' = execPc
        ELSE UNCHANGED <<responses, fetched, execPc>>
  /\ tcIndex' = tcIndex + 1
  /\ UNCHANGED <<toolCalls, strategyVars, retryVars, phasedVars>>
  /\ UNCHANGED auxVars

\* return responses
ExecuteReturn ==
  /\ execPc = "loop"
  /\ tcIndex = Len(toolCalls)
  /\ execPc' = "returned"
  /\ UNCHANGED <<toolCalls, tcIndex, responses, fetched, strategyVars,
                 retryVars, phasedVars>>
  /\ UNCHANGED auxVars

NextTools == ExecuteNext \/ ExecuteReturn

SpecTools == InitTools /\ [][NextTools]_vars

\* ------------------------------------------------------------------------
\* GeminiAdapter.callAPI and generateContentWithRetry
\* ------------------------------------------------------------------------
\* An error message is a sequence of words. String.prototype.toLowerCase:
Lower(w) ==
  CASE w = "Rate" -> "rate"
    [] w = "Limit" -> "limit"
    [] w = "Quota" -> "quota"
    [] w = "OVERLOADED" -> "overloaded"
    [] w = "HTTP" -> "http"
    [] w = "Internal" -> "internal"
    [] OTHER -> w

toLowerCase(message) == [i \in 1..Len(message) |-> Lower(message[i])]

\* String.prototype.includes: the phrase occurs as consecutive words
includes(message, phrase) ==
  \E i \in 0..(Len(message) - Len(phrase)) :
    SubSeq(message, i + 1, i + Len(phrase)) = phrase

\* a wrapper that treats every error as a rate limit error
isRateLimitError_any(err) == TRUE

\* const isRateLimitError
isRateLimitError(err) ==
  \/ /\ err.hasMessage
     /\ \/ includes(toLowerCase(err.message), <<"rate", "limit">>)
        \/ includes(toLowerCase(err.message), <<"quota">>)
        \/ includes(toLowerCase(err.message), <<"429">>)
        \/ includes(toLowerCase(err.message), <<"overloaded">>)
  \/ err.status = 429

\* a retry condition that allows a retry after the last attempt
MoreAttempts_inclusive(att) == att <= MAX_API_RETRIES

\* attempt < MAX_API_RETRIES in the retry condition
MoreAttempts(att) == att < MAX_API_RETRIES

\* a catch block that clears the history before the retry
AttemptFailed_resets(hist, err) == <<>>

\* the effect of the catch block on the contents array (this.chatHistory):
\* it is neither written nor replaced
AttemptFailed(hist, err) == hist

\* the errors ai.models.generateContent may reject with
ErrorMessages ==
  { <<"Rate", "Limit", "exceeded">>, <<"Quota", "exceeded">>,
    <<"HTTP", "429">>, <<"model", "is", "OVERLOADED">>,
    <<"Internal", "error">>, <<"rate", "exceeded", "limit">> }

RemoteErrors ==
  [hasMessage : {TRUE}, message : ErrorMessages, status : {0, 429, 500}]
  \cup [hasMessage : {FALSE}, message : {<<>>}, status : {0, 429, 500}]

\* throw new Error(`Failed ... after 10 attempts. Last error: ...`) when
\* exhausted, throw error otherwise
Throw(exhausted, err) == [thrown |-> TRUE, exhausted |-> exhausted, last |-> err]

\* conversations the adapter may hold when callAPI is entered
InitialHistories ==
  LET h1 == GeminiAddMessage(<<>>, "user", createAgenticPrompt(Batch(1)), <<>>)
      h2 == GeminiCallAPI(h1, Response(EmptyText,
                                       <<ToolCall(1, "get_commit_details",
                                                  <<1>>)>>))
      h3 == GeminiAddMessage(h2, "tool", Txt("toolResult", <<1>>), <<>>)
  IN {h1, h3}

\* the strategy variables other than the conversation
strategyOther == <<adapter, commits, pc, chunks, idx, chunkSummaries,
                   iteration, chunkComplete, result, error, lastCall,
                   lastExec, obs>>

\* callAPI entered on a conversation, first attempt about to start
InitRetry ==
  /\ adapter = "gemini"
  /\ commits = Batch(1)
  /\ pc = "loop"
  /\ messages \in InitialHistories
  /\ chunks = <<>>
  /\ idx = 0
  /\ chunkSummaries = <<>>
  /\ iteration = 1
  /\ chunkComplete = FALSE
  /\ result = NoValue
  /\ error = "none"
  /\ lastCall = NoCall
  /\ lastExec = NoExec
  /\ obs = Obs0
  /\ ExecRest
  /\ attempt = 1
  /\ retryPc = "try"
  /\ remoteCalls = 0
  /\ lastError = NoError
  /\ thrownError = NoThrow
  /\ sent = <<>>
  /\ contentsAtCall = messages
  /\ PhasedRest
  /\ AuxRest

\* ai.models.generateContent rejects: the catch block
AttemptFails ==
  /\ retryPc = "try"
  /\ \E err \in RemoteErrors :
       /\ remoteCalls' = remoteCalls + 1
       /\ sent' = messages
       /\ lastError' = err
       /\ messages' = AttemptFailed(messages, err)
       /\ IF isRateLimitError(err) /\ MoreAttempts(attempt)
            THEN /\ retryPc' = "wait"
                 /\ UNCHANGED thrownError
          ELSE /\ retryPc' = "failed"
               /\ thrownError' = Throw(attempt = MAX_API_RETRIES, err)
  /\ UNCHANGED <<attempt, contentsAtCall, strategyOther, execVars, phasedVars>>
  /\ UNCHANGED auxVars

\* the delay has elapsed: continue with the next attempt
RetryAfterDelay ==
  /\ retryPc = "wait"
  /\ attempt' = attempt + 1
  /\ retryPc' = "try"
  /\ UNCHANGED <<remoteCalls, lastError, thrownError, sent, contentsAtCall,
                 strategyVars, execVars, phasedVars>>
  /\ UNCHANGED auxVars

\* ai.models.generateContent resolves: callAPI records the model turn
AttemptSucceeds ==
  /\ retryPc = "try"
  /\ \E resp \in RemoteOutcomes("gemini", InvestigateOptions) \ {Thrown} :
       /\ remoteCalls' = remoteCalls + 1
       /\ sent' = messages
       /\ messages' = GeminiCallAPI(messages, resp)
       /\ retryPc' = "returned"
  /\ UNCHANGED <<attempt, lastError, thrownError, contentsAtCall,
                 strategyOther, execVars, phasedVars>>
  /\ UNCHANGED auxVars

NextRetry == AttemptFails \/ RetryAfterDelay \/ AttemptSucceeds

SpecRetry == InitRetry /\ [][NextRetry]_vars

\* ------------------------------------------------------------------------
\* callAPI of either adapter
\* ------------------------------------------------------------------------
\* what the try block of NexosAdapter.callAPI may throw: the error built
\* from a response that is not ok, the error for a missing body, a network
\* failure of fetch, and the AbortError raised when the 5-minute timer
\* aborts the request
AbortError ==
  [hasMessage |-> TRUE, message |-> <<"This", "operation", "was", "aborted">>,
   status |-> 0]

NexosErrors ==
  { [hasMessage |-> TRUE, message |-> <<"Nexos", "API", "error", "429">>,
     status |-> 0],
    [hasMessage |-> TRUE, message |-> <<"Nexos", "API", "error", "503">>,
     status |-> 0],
    [hasMessage |-> TRUE, message |-> <<"Nexos", "API", "error", "500">>,
     status |-> 0],
    [hasMessage |-> TRUE, message |-> <<"No", "response", "body">>,
     status |-> 0],
    [hasMessage |-> TRUE, message |-> <<"fetch", "failed">>, status |-> 0],
    AbortError }

\* the catch block: an AbortError becomes "Request timed out after ...ms",
\* every other error is thrown as it is
NexosRethrow(err) ==
  IF err = AbortError
    THEN [hasMessage |-> TRUE, message |-> <<"Request", "timed", "out">>,
          status |-> 0]
  ELSE err

NexosInitialHistories ==
  LET h1 == NexosAddMessage(<<>>, "user", createAgenticPrompt(Batch(1)), <<>>)
      h2 == NexosAddMessage(h1, "assistant", EmptyText,
                            <<ToolCall(1, "get_commit_details", <<1>>)>>)
      h3 == NexosAddMessage(h2, "tool", Txt("toolResult", <<1>>), <<>>)
  IN {h1, h3}

\* callAPI entered on a conversation of either adapter
InitCall ==
  /\ adapter \in Adapters
  /\ commits = Batch(1)
  /\ pc = "loop"
  /\ messages \in (IF adapter = "gemini" THEN InitialHistories
                   ELSE NexosInitialHistories)
  /\ chunks = <<>>
  /\ idx = 0
  /\ chunkSummaries = <<>>
  /\ iteration = 1
  /\ chunkComplete = FALSE
  /\ result = NoValue
  /\ error = "none"
  /\ lastCall = NoCall
  /\ lastExec = NoExec
  /\ obs = Obs0
  /\ ExecRest
  /\ attempt = 1
  /\ retryPc = "try"
  /\ remoteCalls = 0
  /\ lastError = NoError
  /\ thrownError = NoThrow
  /\ sent = <<>>
  /\ contentsAtCall = messages
  /\ PhasedRest
  /\ AuxRest

\* GeminiAdapter.callAPI: the remote call goes through the retry wrapper
GeminiCallStep ==
  /\ adapter = "gemini"
  /\ NextRetry

\* NexosAdapter.callAPI: fetch throws, the response is not ok or has no
\* body, or the timer aborts the request; the catch block rethrows
NexosCallFails ==
  /\ adapter = "nexos"
  /\ retryPc = "try"
  /\ \E err \in NexosErrors :
       /\ remoteCalls' = remoteCalls + 1
       /\ sent' = messages
       /\ lastError' = err
       /\ thrownError' = Throw(FALSE, NexosRethrow(err))
       /\ retryPc' = "failed"
  /\ UNCHANGED <<attempt, contentsAtCall, strategyVars, execVars, phasedVars>>
  /\ UNCHANGED auxVars

\* NexosAdapter.callAPI: the stream is read to its end and the answer is
\* returned; the conversation is not touched
NexosCallSucceeds ==
  /\ adapter = "nexos"
  /\ retryPc = "try"
  /\ \E resp \in RemoteOutcomes("nexos", InvestigateOptions) \ {Thrown} :
       /\ remoteCalls' = remoteCalls + 1
       /\ sent' = messages
       /\ messages' = NexosCallAPI(messages, resp)
       /\ retryPc' = "returned"
  /\ UNCHANGED <<attempt, lastError, thrownError, contentsAtCall,
                 strategyOther, execVars, phasedVars>>
  /\ UNCHANGED auxVars

NextCall == GeminiCallStep \/ NexosCallFails \/ NexosCallSucceeds

SpecCall == InitCall /\ [][NextCall]_vars

\* ------------------------------------------------------------------------
\* The phased variant: executePhasedAnalysis and its final JSON step
\* ------------------------------------------------------------------------
createPhase1Prompt(cs) == Txt("phase1Prompt", cs)

\* embeds potentialBreakingCommits only; the commits parameter is not used
createPhase2Prompt(cs, candidates) == Txt("phase2Prompt", candidates)

\* a fixed text; the commits parameter is not used
createPhase3Prompt(cs) == Txt("phase3Prompt", <<>>)

createPhase4Prompt == Txt("phase4Prompt", <<>>)

createPhase5Prompt == Txt("phase5Prompt", <<>>)

\* The data of a plain answer is its sequence of lines; a line is a number:
\* n >= 1 is a bullet line holding the 40-digit hash of commit n, and 0 is
\* the line "No potential breaking changes found."
IsHashLine(line) == line >= 1

\* split, filter, strip and the fixed-length hex filter of phase 1
ParseCandidates(content) == SelectSeq(content.data, IsHashLine)

\* what the remote model may answer in the phased variant
PhasedOutcomes(ad, options) ==
  {Thrown} \cup
  IF options.requestJson
    THEN {Response(Txt("json", <<s>>), <<>>) : s \in JsonShapes(ad)}
         \cup {Response(Txt("text", <<0>>), <<>>)}
  ELSE IF options.enableTools
    THEN {Response(Txt("text", <<0>>), <<>>), Response(Txt("text", <<1>>), <<>>)}
         \cup {Response(EmptyText, r) : r \in ToolRounds}
  ELSE {Response(Txt("text", <<1>>), <<>>)}

\* while (response.toolCalls && response.toolCalls.length > 0 && iteration < 5)
PhaseLoopCond(resp, it) == HasToolCalls(resp) /\ it < 5

InitPhased ==
  /\ commits \in {Batch(1), Batch(CHUNK_THRESHOLD + 1)}
  /\ InitRest
  /\ ExecRest
  /\ RetryRest
  /\ PhasedRest
  /\ AuxRest

\* response = await adapter.callAPI(adapter.getMessages(), options) on the
\* conversation hist; a rejected call ends the generation
PhasedCallFrom(o, hist, options, nextPhase, nextPc) ==
  \E out \in PhasedOutcomes(adapter, options) :
    /\ lastCall' = Call(hist, options, out)
    /\ obs' = CountCall(o, options, out)
    /\ response' = out
    /\ phase' = nextPhase
    /\ IF out.ok
         THEN /\ messages' = callAPI(adapter, hist, out)
              /\ pc' = nextPc
              /\ UNCHANGED error
       ELSE /\ messages' = hist
            /\ pc' = "failed"
            /\ error' = "provider"

PhasedCall(hist, options, nextPhase, nextPc) ==
  PhasedCallFrom(obs, hist, options, nextPhase, nextPc)

\* the commits executePhasedAnalysis is called with: the chunk of the for
\* loop, or the whole batch
PhasedInput == IF needsChunking(commits) THEN chunks[idx + 1] ELSE commits

\* generateSummaryWithStrategy resets the adapter, decides on chunking and
\* splits the batch
PhasedStart ==
  /\ pc = "idle"
  /\ messages' = resetMessages
  /\ chunks' = IF needsChunking(commits) THEN SplitIntoChunks(commits)
               ELSE <<>>
  /\ idx' = 0
  /\ chunkSummaries' = <<>>
  /\ pc' = "phase1"
  /\ UNCHANGED <<adapter, commits, iteration, chunkComplete, result, error,
                 lastCall, lastExec, obs>>
  /\ UNCHANGED <<execVars, retryVars, phasedVars>>
  /\ UNCHANGED auxVars

\* executePhasedAnalysis is entered: reset, phase-1 prompt, first call with
\* tools
PhaseOne ==
  /\ pc = "phase1"
  /\ PhasedCallFrom(Obs0,
                    addMessage(adapter, resetMessages, "user",
                               createPhase1Prompt(PhasedInput), <<>>),
                    InvestigateOptions, 1, "toolLoop")
  /\ iteration' = 0
  /\ lastExec' = NoExec
  /\ potentialBreakingCommits' = <<>>
  /\ UNCHANGED <<adapter, commits, chunks, idx, chunkSummaries, chunkComplete,
                 result>>
  /\ UNCHANGED <<execVars, retryVars>>
  /\ UNCHANGED auxVars

\* body of the tool loop of phase 1 and of phase 3
PhaseToolIteration ==
  /\ pc = "toolLoop"
  /\ PhaseLoopCond(response, iteration)
  /\ iteration' = iteration + 1
  /\ LET round == ToolBranch(adapter, messages, response)
     IN /\ lastExec' = round.exec
        /\ IF round.thrown
             THEN /\ messages' = round.hist
                  /\ pc' = "failed"
                  /\ error' = "addMessage"
                  /\ obs' = [obs EXCEPT !.execCount = @ + 1]
                  /\ UNCHANGED <<lastCall, response, phase>>
           ELSE \E out \in PhasedOutcomes(adapter, InvestigateOptions) :
                  /\ lastCall' = Call(round.hist, InvestigateOptions, out)
                  /\ obs' = [CountCall(obs, InvestigateOptions, out)
                               EXCEPT !.execCount = @ + 1]
                  /\ response' = out
                  /\ phase' = phase
                  /\ IF out.ok
                       THEN /\ messages' = callAPI(adapter, round.hist, out)
                            /\ pc' = pc
                            /\ UNCHANGED error
                     ELSE /\ messages' = round.hist
                          /\ pc' = "failed"
                          /\ error' = "provider"
  /\ UNCHANGED <<adapter, commits, chunks, idx, chunkSummaries, chunkComplete,
                 result, potentialBreakingCommits>>
  /\ UNCHANGED <<execVars, retryVars>>
  /\ UNCHANGED auxVars

\* the loop of phase 1 is left: parse the candidates, phase-2 prompt, call
\* without tools
PhaseTwo ==
  /\ pc = "toolLoop"
  /\ phase = 1
  /\ ~PhaseLoopCond(response, iteration)
  /\ potentialBreakingCommits' = ParseCandidates(response.content)
  /\ PhasedCall(addMessage(adapter, messages, "user",
                           createPhase2Prompt(PhasedInput,
                                              ParseCandidates(response.content)),
                           <<>>),
                FallbackOptions, 2, "phase3")
  /\ lastExec' = NoExec
  /\ UNCHANGED <<adapter, commits, chunks, idx, chunkSummaries, iteration,
                 chunkComplete, result>>
  /\ UNCHANGED <<execVars, retryVars>>
  /\ UNCHANGED auxVars

\* phase-3 prompt and the first call of phase 3, with tools
PhaseThree ==
  /\ pc = "phase3"
  /\ PhasedCall(addMessage(adapter, messages, "user",
                           createPhase3Prompt(PhasedInput), <<>>),
                InvestigateOptions, 3, "toolLoop")
  /\ iteration' = 0
  /\ lastExec' = NoExec
  /\ UNCHANGED <<adapter, commits, chunks, idx, chunkSummaries, chunkComplete,
                 result, potentialBreakingCommits>>
  /\ UNCHANGED <<execVars, retryVars>>
  /\ UNCHANGED auxVars

\* phase 4 calling with the tools enabled
PhaseFour_withTools ==
  /\ pc = "toolLoop"
  /\ phase = 3
  /\ ~PhaseLoopCond(response, iteration)
  /\ PhasedCall(addMessage(adapter, messages, "user", createPhase4Prompt,
                           <<>>),
                InvestigateOptions, 4, "phase5")
  /\ lastExec' = NoExec
  /\ UNCHANGED <<adapter, commits, chunks, idx, chunkSummaries, iteration,
                 chunkComplete, result, potentialBreakingCommits>>
  /\ UNCHANGED <<execVars, retryVars>>
  /\ UNCHANGED auxVars

\* the loop of phase 3 is left: phase-4 prompt, call without tools
PhaseFour ==
  /\ pc = "toolLoop"
  /\ phase = 3
  /\ ~PhaseLoopCond(response, iteration)
  /\ PhasedCall(addMessage(adapter, messages, "user", createPhase4Prompt,
                           <<>>),
                FallbackOptions, 4, "phase5")
  /\ lastExec' = NoExec
  /\ UNCHANGED <<adapter, commits, chunks, idx, chunkSummaries, iteration,
                 chunkComplete, result, potentialBreakingCommits>>
  /\ UNCHANGED <<execVars, retryVars>>
  /\ UNCHANGED auxVars

\* phase-5 prompt, call without tools; executePhasedAnalysis returns the
\* content of the answer, which the chunk loop pushes to chunkSummaries
PhaseFive ==
  /\ pc = "phase5"
  /\ PhasedCall(addMessage(adapter, messages, "user", createPhase5Prompt,
                           <<>>),
                FallbackOptions, 5,
                IF ~needsChunking(commits) THEN "final"
                ELSE IF idx + 1 < Len(chunks) THEN "phase1"
                ELSE "synthesize")
  /\ lastExec' = NoExec
  /\ IF needsChunking(commits) /\ response'.ok
       THEN /\ chunkSummaries' = Append(chunkSummaries, response'.content)
            /\ idx' = idx + 1
     ELSE UNCHANGED <<chunkSummaries, idx>>
  /\ UNCHANGED <<adapter, commits, chunks, iteration, chunkComplete, result,
                 potentialBreakingCommits>>
  /\ UNCHANGED <<execVars, retryVars>>
  /\ UNCHANGED auxVars

\* phase 6 of the chunked path: reset and the synthesis prompt
PhasedSynthesize ==
  /\ pc = "synthesize"
  /\ messages' = addMessage(adapter, resetMessages, "user",
                            createFinalSummaryFromChunksPrompt(chunkSummaries),
                            <<>>)
  /\ pc' = "final"
  /\ UNCHANGED <<adapter, commits, chunks, idx, chunkSummaries, iteration,
                 chunkComplete, result, error, lastCall, lastExec, obs>>
  /\ UNCHANGED <<execVars, retryVars, phasedVars>>
  /\ UNCHANGED auxVars

\* final step of the phased generateSummaryWithStrategy: final-JSON prompt,
\* JSON-mode call, JSON.parse
PhasedFinalJson ==
  /\ pc = "final"
  /\ \E out \in PhasedOutcomes(adapter, FinalOptions) :
       LET hist0 == addMessage(adapter, messages, "user",
                               createFinalJsonPrompt, <<>>)
       IN /\ lastCall' = Call(hist0, FinalOptions, out)
          /\ obs' = CountCall(obs, FinalOptions, out)
          /\ response' = out
          /\ IF ~out.ok
               THEN /\ pc' = "failed"
                    /\ error' = "provider"
                    /\ messages' = hist0
                    /\ UNCHANGED result
             ELSE IF JSONparseThrows(out.content)
               THEN /\ pc' = "failed"
                    /\ error' = "parse"
                    /\ messages' = callAPI(adapter, hist0, out)
                    /\ UNCHANGED result
             ELSE /\ pc' = "done"
                  /\ result' = JSONparse(out.content)
                  /\ messages' = callAPI(adapter, hist0, out)
                  /\ UNCHANGED error
  /\ UNCHANGED <<adapter, commits, chunks, idx, chunkSummaries, iteration,
                 chunkComplete, lastExec, phase, potentialBreakingCommits>>
  /\ UNCHANGED <<execVars, retryVars>>
  /\ UNCHANGED auxVars

NextPhased ==
  \/ PhasedStart
  \/ PhaseOne
  \/ PhaseToolIteration
  \/ PhaseTwo
  \/ PhaseThree
  \/ PhaseFour
  \/ PhaseFive
  \/ PhasedSynthesize
  \/ PhasedFinalJson

SpecPhased == InitPhased /\ [][NextPhased]_vars

\* ------------------------------------------------------------------------
\* The non-chunked generation as a function of the adapter, so that the two
\* adapters can be driven by the same answers
\* ------------------------------------------------------------------------
\* the generation after adapter.resetMessages() and the agentic prompt
RunStart(ad, cs) ==
  [pc |-> "loop",
   hist |-> addMessage(ad, resetMessages, "user", createAgenticPrompt(cs),
                       <<>>),
   iteration |-> 0, error |-> "none", result |-> NoValue,
   options |-> InvestigateOptions, exec |-> NoExec]

\* the options of the call the generation makes next
RunOptions(st) ==
  IF st.pc = "loop" /\ LoopCond(st.iteration) THEN InvestigateOptions
  ELSE FinalOptions

\* one iteration of the investigation loop, answered by out
RunIterate(ad, st, out) ==
  LET hist1 == callAPI(ad, st.hist, out)
      round == ToolBranch(ad, hist1, out)
  IN IF ~out.ok
       THEN [st EXCEPT !.pc = AfterRejection, !.error = "provider",
                       !.iteration = @ + 1, !.options = InvestigateOptions]
     ELSE IF HasToolCalls(out)
       THEN [st EXCEPT !.hist = round.hist,
                       !.pc = IF round.thrown THEN "failed" ELSE "loop",
                       !.error = IF round.thrown THEN "addMessage" ELSE @,
                       !.iteration = @ + 1, !.options = InvestigateOptions,
                       !.exec = round.exec]
     ELSE [st EXCEPT !.hist = hist1, !.pc = "final", !.iteration = @ + 1,
                     !.options = InvestigateOptions]

\* the final-JSON prompt, the JSON-mode call answered by out, JSON.parse
RunFinalJson(ad, st, out) ==
  LET hist0 == addMessage(ad, st.hist, "user", createFinalJsonPrompt, <<>>)
  IN IF ~out.ok
       THEN [st EXCEPT !.hist = hist0, !.pc = AfterRejection,
                       !.error = "provider", !.options = FinalOptions]
     ELSE IF JSONparseThrows(out.content)
       THEN [st EXCEPT !.hist = callAPI(ad, hist0, out), !.pc = "failed",
                       !.error = "parse", !.options = FinalOptions]
     ELSE [st EXCEPT !.hist = callAPI(ad, hist0, out), !.pc = "done",
                     !.result = JSONparse(out.content),
                     !.options = FinalOptions]

RunStep(ad, st, out) ==
  IF st.pc = "loop" /\ LoopCond(st.iteration) THEN RunIterate(ad, st, out)
  ELSE RunFinalJson(ad, st, out)

RunTerminal(st) == st.pc \in {"done", "failed"}

InitPair ==
  /\ StrategyRest
  /\ ExecRest
  /\ RetryRest
  /\ PhasedRest
  /\ \E cs \in {Batch(1), Batch(2), Batch(CHUNK_THRESHOLD)} :
       runs = [ad \in Adapters |-> RunStart(ad, cs)]
  /\ fetchRound = <<>>
  /\ inv = 0
  /\ offset = 0
  /\ pending = {}
  /\ inFlight = {}
  /\ results = <<>>
  /\ outcomes = <<>>
  /\ fetchPc = "off"
  /\ lastOp = NoOp
  /\ builder = "none"
  /\ promptInput = <<>>
  /\ promptOutput = <<>>
  /\ MoreRest

\* the remote model gives both generations the same answer to their next
\* call, which both make with the same options
PairStep ==
  /\ \A ad \in Adapters : ~RunTerminal(runs[ad])
  /\ RunOptions(runs["gemini"]) = RunOptions(runs["nexos"])
  /\ \E out \in RemoteOutcomes("gemini", RunOptions(runs["gemini"])) :
       runs' = [ad \in Adapters |-> RunStep(ad, runs[ad], out)]
  /\ UNCHANGED <<strategyVars, execVars, retryVars, phasedVars, fetchVars,
                 adapterVars, promptVars, moreVars>>

\* one generation has ended: the other goes on alone
SoloStep ==
  /\ \E ad \in Adapters :
       /\ ~RunTerminal(runs[ad])
       /\ \E other \in Adapters \ {ad} : RunTerminal(runs[other])
       /\ \E out \in RemoteOutcomes(ad, RunOptions(runs[ad])) :
            runs' = [runs EXCEPT ![ad] = RunStep(ad, runs[ad], out)]
  /\ UNCHANGED <<strategyVars, execVars, retryVars, phasedVars, fetchVars,
                 adapterVars, promptVars, moreVars>>

NextPair == PairStep \/ SoloStep

SpecPair == InitPair /\ [][NextPair]_vars

\* ------------------------------------------------------------------------
\* One tool round of executeToolCalls with the fetches of
\* fetchMultipleCommitDetails settling one by one
\* ------------------------------------------------------------------------
\* the commit_hashes lists a model may send
HashLists ==
  { <<1, 2>>, <<0, 1, 2, 3, 4>>, <<1, 2, 3, 4, 5, 6>>, <<1, 2, 3, 0>> }

\* a tool round: one or two invocations
FetchRounds ==
  {<<a>> : a \in HashLists} \cup {<<a, b>> : a \in HashLists, b \in HashLists}

Min(a, b) == IF a < b THEN a ELSE b

\* commitHashes.slice(i, i + BATCH_SIZE), as positions of the list
BatchPositions(hashes, i) == (i + 1)..Min(i + BATCH_SIZE, Len(hashes))

\* the details of the known hashes of a batch, in order
BatchResults(hashes, i) ==
  [k \in 1..(Min(i + BATCH_SIZE, Len(hashes)) - i) |-> hashes[i + k]]

InitFetch ==
  /\ StrategyRest
  /\ ExecRest
  /\ RetryRest
  /\ PhasedRest
  /\ runs = <<>>
  /\ fetchRound \in FetchRounds
  /\ inv = 1
  /\ offset = 0
  /\ pending = {}
  /\ inFlight = {}
  /\ results = <<>>
  /\ outcomes = <<>>
  /\ fetchPc = "start"
  /\ lastOp = NoOp
  /\ builder = "none"
  /\ promptInput = <<>>
  /\ promptOutput = <<>>
  /\ MoreRest

notFetchVars == <<strategyVars, execVars, retryVars, phasedVars, pairVars,
                  adapterVars, promptVars, moreVars>>

\* the executor turns to the next invocation of the round
NextInvocation ==
  /\ inv' = inv + 1
  /\ offset' = 0
  /\ results' = <<>>
  /\ pending' = {}
  /\ fetchPc' = IF inv + 1 > Len(fetchRound) THEN "done" ELSE "start"

\* loop head with i < commitHashes.length: Promise.all over the batch starts
\* one fetchCommitDetail per hash of the batch
StartBatch ==
  /\ fetchPc = "start"
  /\ offset < Len(fetchRound[inv])
  /\ inFlight' = inFlight \cup
                   {<<inv, p>> : p \in BatchPositions(fetchRound[inv], offset)}
  /\ pending' = BatchPositions(fetchRound[inv], offset)
  /\ fetchPc' = "await"
  /\ UNCHANGED <<fetchRound, inv, offset, results, outcomes, notFetchVars>>

\* loop head with i >= commitHashes.length: return results; the executor
\* pushes the tool result
ReturnResults ==
  /\ fetchPc = "start"
  /\ offset >= Len(fetchRound[inv])
  /\ outcomes' = Append(outcomes, [ok |-> TRUE, details |-> results])
  /\ NextInvocation
  /\ UNCHANGED <<fetchRound, inFlight, notFetchVars>>

\* a fetchCommitDetail resolves; when it is the last of the batch awaited,
\* Promise.all resolves and the batch results are pushed
FetchResolves ==
  /\ \E f \in inFlight :
       /\ fetchRound[f[1]][f[2]] \notin UnknownHashes
       /\ inFlight' = inFlight \ {f}
       /\ IF fetchPc = "await" /\ f[1] = inv /\ f[2] \in pending
            THEN /\ pending' = pending \ {f[2]}
                 /\ IF pending \ {f[2]} = {}
                      THEN /\ results' = results \o
                                           BatchResults(fetchRound[inv], offset)
                           /\ offset' = offset + BATCH_SIZE
                           /\ fetchPc' =
                                IF offset + BATCH_SIZE < Len(fetchRound[inv])
                                  THEN "delay" ELSE "start"
                    ELSE UNCHANGED <<results, offset, fetchPc>>
          ELSE UNCHANGED <<pending, results, offset, fetchPc>>
  /\ UNCHANGED <<fetchRound, inv, outcomes, notFetchVars>>

\* a fetchCommitDetail rejects; when it belongs to the batch awaited,
\* Promise.all rejects at once, fetchMultipleCommitDetails rejects, and the
\* catch block of the executor pushes the tool error and the for loop goes
\* on, whatever fetches of the batch are still under way
FetchRejects ==
  /\ \E f \in inFlight :
       /\ fetchRound[f[1]][f[2]] \in UnknownHashes
       /\ inFlight' = inFlight \ {f}
       /\ IF fetchPc = "await" /\ f[1] = inv /\ f[2] \in pending
            THEN /\ outcomes' = Append(outcomes,
                                       [ok |-> FALSE, details |-> <<>>])
                 /\ NextInvocation
          ELSE UNCHANGED <<inv, offset, results, pending, fetchPc, outcomes>>
  /\ UNCHANGED <<fetchRound, notFetchVars>>

\* the 500 ms pause between two batches has elapsed
DelayElapsed ==
  /\ fetchPc = "delay"
  /\ fetchPc' = "start"
  /\ UNCHANGED <<fetchRound, inv, offset, pending, inFlight, results,
                 outcomes, notFetchVars>>

NextFetch ==
  \/ StartBatch
  \/ ReturnResults
  \/ FetchResolves
  \/ FetchRejects
  \/ DelayElapsed

SpecFetch == InitFetch /\ [][NextFetch]_vars

\* ------------------------------------------------------------------------
\* A platform adapter driven through its interface in any order
\* ------------------------------------------------------------------------
\* longest conversation built before the adapter is reset
MaxTurns == 3

AdapterContents ==
  {Txt("text", <<1>>), Txt("toolResult", <<1>>), Txt("toolError", <<>>)}

AdapterResponses ==
  {Response(Txt("text", <<1>>), <<>>)} \cup
  {Response(EmptyText, r) : r \in ToolRounds}

Op(name) == [op |-> name, before |-> messages]

\* constructor: chatHistory = [] / messages = []
InitAdapter ==
  /\ commits = <<>>
  /\ InitRest
  /\ ExecRest
  /\ RetryRest
  /\ PhasedRest
  /\ runs = <<>>
  /\ fetchRound = <<>>
  /\ inv = 0
  /\ offset = 0
  /\ pending = {}
  /\ inFlight = {}
  /\ results = <<>>
  /\ outcomes = <<>>
  /\ fetchPc = "off"
  /\ lastOp = NoOp
  /\ builder = "none"
  /\ promptInput = <<>>
  /\ promptOutput = <<>>
  /\ MoreRest

notAdapterVars == <<commits, pc, chunks, idx, chunkSummaries, iteration,
                    chunkComplete, result, error, lastCall, lastExec, obs,
                    execVars, retryVars, phasedVars, pairVars, fetchVars,
                    promptVars, moreVars>>

\* adapter.addMessage(role, content, toolCalls)
AdapterAddMessage ==
  /\ Len(messages) < MaxTurns
  /\ \E role \in {"user", "assistant", "tool"}, content \in AdapterContents,
        tcs \in {<<>>} \cup ToolRounds :
       IF addMessageThrows(adapter, role, content)
         THEN /\ messages' = messages
              /\ lastOp' = Op("addMessageThrew")
       ELSE /\ messages' = addMessage(adapter, messages, role, content, tcs)
            /\ lastOp' = Op("addMessage")
  /\ UNCHANGED <<adapter, notAdapterVars>>

\* await adapter.callAPI(options) returns a response
AdapterCallReturns ==
  /\ Len(messages) < MaxTurns
  /\ \E resp \in AdapterResponses :
       messages' = callAPI(adapter, messages, resp)
  /\ lastOp' = Op("callAPI")
  /\ UNCHANGED <<adapter, notAdapterVars>>

\* await adapter.callAPI(options) rejects
AdapterCallRejects ==
  /\ lastOp.op # "callAPIThrew"
  /\ messages' = messages
  /\ lastOp' = Op("callAPIThrew")
  /\ UNCHANGED <<adapter, notAdapterVars>>

\* adapter.resetMessages()
AdapterReset ==
  /\ messages' = resetMessages
  /\ lastOp' = Op("resetMessages")
  /\ UNCHANGED <<adapter, notAdapterVars>>

NextAdapter ==
  \/ AdapterAddMessage
  \/ AdapterCallReturns
  \/ AdapterCallRejects
  \/ AdapterReset

SpecAdapter == InitAdapter /\ [][NextAdapter]_vars

\* ------------------------------------------------------------------------
\* The prompt builders as texts
\* ------------------------------------------------------------------------
\* length of a commit identifier in characters
HashLen == 8

\* c.substring(0, 7)
ShortHashLength == 7

\* most commits of a batch handed to a builder
MaxPromptBatch == 3

\* GitilesCommit.commit: the identifier of commit id as a string of
\* characters, distinct commits having distinct strings
Hash(id) == [k \in 1..HashLen |-> (id * k) % 5]

\* String.prototype.substring(0, n)
substring(str, n) == SubSeq(str, 1, Min(n, Len(str)))

\* the batches: distinct commits in any order
PromptBatches ==
  {cs \in UNION {[1..n -> 1..MaxPromptBatch] : n \in 1..MaxPromptBatch} :
     \A i, j \in 1..Len(cs) : i # j => cs[i] # cs[j]}

\* one line of text per embedded identifier ("Commit: <hash>", "- <hash>");
\* character 9 stands for the text around the identifier
RECURSIVE HashLines(_)
HashLines(ids) ==
  IF ids = <<>> THEN <<>>
  ELSE <<9>> \o Hash(Head(ids)) \o HashLines(Tail(ids))

\* point.commits.map(c => `(${c.substring(0, 7)})`).join(' ')
RECURSIVE commitRefs(_)
commitRefs(ids) ==
  IF ids = <<>> THEN <<>>
  ELSE <<9>> \o substring(Hash(Head(ids)), ShortHashLength)
       \o commitRefs(Tail(ids))

\* createWeeklyPrompt for daily summaries whose points cite ids
createWeeklyPrompt(ids) == Txt("weeklyPrompt", commitRefs(ids))

\* the text of a prompt of the generation strategies: its embedded
\* identifiers, each in full
PromptText(prompt) == HashLines(prompt.data)

\* chunk summaries citing the commits of the batch, one each
CitingSummaries(cs) == [i \in 1..Len(cs) |-> Txt("text", <<cs[i]>>)]

InitPrompt ==
  /\ StrategyRest
  /\ ExecRest
  /\ RetryRest
  /\ PhasedRest
  /\ runs = <<>>
  /\ fetchRound = <<>>
  /\ inv = 0
  /\ offset = 0
  /\ pending = {}
  /\ inFlight = {}
  /\ results = <<>>
  /\ outcomes = <<>>
  /\ fetchPc = "off"
  /\ lastOp = NoOp
  /\ builder = "none"
  /\ promptInput \in PromptBatches
  /\ promptOutput = <<>>
  /\ MoreRest

notPromptVars == <<strategyVars, execVars, retryVars, phasedVars, pairVars,
                   fetchVars, adapterVars, moreVars>>

Built(name, text) ==
  /\ builder' = name
  /\ promptOutput' = text
  /\ UNCHANGED <<promptInput, notPromptVars>>

BuildAgenticPrompt ==
  /\ builder = "none"
  /\ Built("createAgenticPrompt", PromptText(createAgenticPrompt(promptInput)))

BuildSynthesisPrompt ==
  /\ builder = "none"
  /\ Built("createFinalSummaryFromChunksPrompt",
           PromptText(createFinalSummaryFromChunksPrompt(
                        CitingSummaries(promptInput))))

BuildWeeklyPrompt ==
  /\ builder = "none"
  /\ Built("createWeeklyPrompt", createWeeklyPrompt(promptInput).data)

BuildPhase1Prompt ==
  /\ builder = "none"
  /\ Built("createPhase1Prompt", PromptText(createPhase1Prompt(promptInput)))

\* the candidates are the hash lines of the phase 1 answer: none, the first
\* commit or all commits of the batch
BuildPhase2Prompt ==
  /\ builder = "none"
  /\ \E candidates \in {<<>>, <<promptInput[1]>>, promptInput} :
       Built("createPhase2Prompt",
             PromptText(createPhase2Prompt(promptInput, candidates)))

BuildPhase3Prompt ==
  /\ builder = "none"
  /\ Built("createPhase3Prompt", PromptText(createPhase3Prompt(promptInput)))

NextPrompt ==
  \/ BuildAgenticPrompt
  \/ BuildSynthesisPrompt
  \/ BuildWeeklyPrompt
  \/ BuildPhase1Prompt
  \/ BuildPhase2Prompt
  \/ BuildPhase3Prompt

SpecPrompt == InitPrompt /\ [][NextPrompt]_vars

\* ------------------------------------------------------------------------
\* The non-chunked generation with final documents that cite commits
\* ------------------------------------------------------------------------
\* the commits cited by the points of the JSON document the model writes
CitedLists == {<<>>, <<1>>, <<1, 2>>, <<4>>, <<1, 4>>}

\* what the remote model may answer to the JSON-mode call: a document
\* citing commits, or a text that is no JSON
CitingOutcomes ==
  {Thrown, Response(Txt("text", <<0>>), <<>>)} \cup
  {Response(Txt("json", cited), <<>>) : cited \in CitedLists}

InitCite ==
  /\ commits \in {Batch(1), Batch(2)}
  /\ InitRest
  /\ ExecRest
  /\ RetryRest
  /\ PhasedRest
  /\ AuxRest

\* final-JSON prompt, JSON-mode call, return JSON.parse(finalResponse.content)
CiteFinalJson ==
  /\ \/ pc = "final"
     \/ pc = "loop" /\ ~LoopCond(iteration)
  /\ \E out \in CitingOutcomes :
       LET hist0 == addMessage(adapter, messages, "user",
                               createFinalJsonPrompt, <<>>)
       IN /\ lastCall' = Call(hist0, FinalOptions, out)
          /\ obs' = CountCall(obs, FinalOptions, out)
          /\ IF ~out.ok
               THEN /\ pc' = AfterRejection
                    /\ error' = "provider"
                    /\ messages' = hist0
                    /\ UNCHANGED result
             ELSE IF JSONparseThrows(out.content)
               THEN /\ pc' = "failed"
                    /\ error' = "parse"
                    /\ messages' = callAPI(adapter, hist0, out)
                    /\ UNCHANGED result
             ELSE /\ pc' = "done"
                  /\ result' = JSONparse(out.content)
                  /\ messages' = callAPI(adapter, hist0, out)
                  /\ UNCHANGED error
  /\ UNCHANGED <<adapter, commits, chunks, idx, chunkSummaries, iteration,
                 chunkComplete, lastExec>>
  /\ UNCHANGED <<execVars, retryVars, phasedVars>>
  /\ UNCHANGED auxVars

NextCite ==
  \/ Start
  \/ Iterate
  \/ CiteFinalJson

SpecCite == InitCite /\ [][NextCite]_vars

\* ------------------------------------------------------------------------
\* LLMService: provider selection
\* ------------------------------------------------------------------------
\* most services constructed in one run
MaxServices == 2

\* most generation calls made on one service
MaxServiceCalls == 2

\* the values a configuration may hold for llmProvider; "undefined" is the
\* absent argument, "mistral" a value outside the LLMProvider type
ProviderValues ==
  {"gemini", "nexos", "openai", "anthropic", "mistral", "undefined"}

\* a getService that defers the failure to the first use
getService_deferred(provider) ==
  IF provider \in {"gemini", "nexos"}
    THEN [thrown |-> FALSE, service |-> provider, message |-> "none"]
  ELSE [thrown |-> FALSE, service |-> "unavailable", message |-> "none"]

\* private getService(provider): the switch statement
getService(provider) ==
  CASE provider = "gemini" ->
         [thrown |-> FALSE, service |-> "gemini", message |-> "none"]
    [] provider = "nexos" ->
         [thrown |-> FALSE, service |-> "nexos", message |-> "none"]
    [] provider = "openai" ->
         [thrown |-> TRUE, service |-> "none",
          message |-> "OpenAI provider not yet implemented"]
    [] provider = "anthropic" ->
         [thrown |-> TRUE, service |-> "none",
          message |-> "Anthropic provider not yet implemented"]
    [] OTHER ->
         [thrown |-> TRUE, service |-> "none",
          message |-> "Unknown LLM provider"]

\* constructor(provider: LLMProvider = 'gemini'): the outcome of
\* new LLMService(arg)
NewLLMService(arg) ==
  LET provider == IF arg = "undefined" THEN "gemini" ELSE arg
      selected == getService(provider)
  IN [arg |-> arg, constructed |-> ~selected.thrown,
      provider |-> IF selected.thrown THEN "none" ELSE provider,
      service |-> selected.service, message |-> selected.message,
      calls |-> <<>>]

\* this.service.generateSummary(...) / this.service.generateWeeklySummary(...):
\* the function of the selected provider the call is delegated to; a service
\* that is none of the two implementations cannot serve the call
Delegate(svc, method) ==
  IF svc.service \in {"gemini", "nexos"}
    THEN [method |-> method, to |-> svc.service, selectionFailed |-> FALSE]
  ELSE [method |-> method, to |-> "none", selectionFailed |-> TRUE]

InitService ==
  /\ StrategyRest
  /\ ExecRest
  /\ RetryRest
  /\ PhasedRest
  /\ AuxRest

notServiceVars == <<strategyVars, execVars, retryVars, phasedVars, pairVars,
                    fetchVars, adapterVars, promptVars, workflowVars,
                    parseVars, streamVars>>

\* createLLMService(arg): new LLMService(arg) returns or throws
CreateService ==
  /\ Len(services) < MaxServices
  /\ \E arg \in ProviderValues :
       services' = Append(services, NewLLMService(arg))
  /\ UNCHANGED notServiceVars

\* llmService.generateSummary(...) / generateWeeklySummary(...) on a service
\* that was constructed
GenerateCall ==
  /\ \E i \in 1..Len(services), method \in {"generateSummary",
                                            "generateWeeklySummary"} :
       /\ services[i].constructed
       /\ Len(services[i].calls) < MaxServiceCalls
       /\ services' = [services EXCEPT
                         ![i].calls = Append(@, Delegate(services[i], method))]
  /\ UNCHANGED notServiceVars

NextService == CreateService \/ GenerateCall

SpecService == InitService /\ [][NextService]_vars

\* ------------------------------------------------------------------------
\* The scripts generate-page and generate-weeklies
\* ------------------------------------------------------------------------
\* chromiumService: pages of the commit list fetched, commits per page
MAX_PAGES == 3

PER_PAGE == 100

\* most runs of a script in a row
MaxRuns == 2

\* the files of the output directory: the digest of the date, an earlier
\* digest, the index, the weekly pages and the weeklies index
FileNames == {"date", "earlier", "index", "W1", "W2", "weeklies"}

\* the weeks aggregateWeeklyData finds in the daily summaries
WeekLists == {<<>>, <<"W1">>, <<"W1", "W2">>}

\* commits the day has on the branch
DaySizes == {0, 1, 2, CHUNK_THRESHOLD, CHUNK_THRESHOLD + 1, MaxCommits}

\* the while loop over the pages of the commit list (stage 1); the commits
\* of the day are 1..day, newest first
RECURSIVE FetchPages(_, _, _)
FetchPages(day, page, shas) ==
  IF page > MAX_PAGES THEN shas
  ELSE LET n == Min(PER_PAGE, day - Len(shas))
           commitsOnPage == [k \in 1..n |-> Len(shas) + k]
       IN IF n = 0 THEN shas
          ELSE IF n < PER_PAGE THEN shas \o commitsOnPage
          ELSE FetchPages(day, page + 1, shas \o commitsOnPage)

\* fetchCommitsForDate with every detail request answered
fetchCommitsForDate(day) == FetchPages(day, 1, <<>>)

\* allCommits.filter: commits 1..bots are from ignored bots or are version
\* updates
FilterCommits(allCommits, bots) ==
  LET Relevant(c) == c > bots IN SelectSeq(allCommits, Relevant)

\* fs.writeFile: the file gets a new version
writeFile(fs, name) == [fs EXCEPT ![name] = @ + 1]

\* fs.access always rejecting
Exists_never(fs, name) == fs[name] > 1 /\ fs[name] < 1

\* fs.access resolves
Exists(fs, name) == fs[name] > 0

LogEntry(op, name, n, chunked, ok) ==
  [op |-> op, name |-> name, n |-> n, chunked |-> chunked, ok |-> ok]

InitWorkflow ==
  /\ StrategyRest
  /\ ExecRest
  /\ RetryRest
  /\ PhasedRest
  /\ ToolingRest
  /\ ServiceRest
  /\ ParseRest
  /\ StreamRest
  /\ script \in {"page", "weeklies"}
  /\ flowPc = "start"
  /\ files \in [FileNames -> {0, 1}]
  /\ files["earlier"] = 1
  /\ files["index"] = 1
  /\ \E day \in DaySizes, bots \in {0, 1, 2}, weeks \in WeekLists :
       /\ script = "page" => weeks = <<>> /\ files["weeklies"] = 0
                             /\ files["W1"] = 0 /\ files["W2"] = 0
       /\ script = "weeklies" => day = 0 /\ bots = 0 /\ files["date"] = 1
       /\ flowIn = [day |-> day, bots |-> bots, weeks |-> weeks,
                    files0 |-> files, run |-> 1]
  /\ flowLog = <<>>
  /\ flowK = 0
  /\ weeklySummaries = {}
  /\ filteredCommits = <<>>

notWorkflowVars == <<strategyVars, execVars, retryVars, phasedVars, pairVars,
                     fetchVars, adapterVars, promptVars, serviceVars,
                     parseVars, streamVars>>

\* generate-page, steps 1 and 2: fetch the commits of the date and filter
\* them; nothing to do without commits; a failing fetch exits
PageFetch ==
  /\ script = "page"
  /\ flowPc = "start"
  /\ \E fetchOk \in BOOLEAN :
       LET allCommits == fetchCommitsForDate(flowIn.day)
           relevant == FilterCommits(allCommits, flowIn.bots)
       IN IF ~fetchOk
            THEN /\ flowPc' = "exit1"
                 /\ UNCHANGED filteredCommits
          ELSE IF allCommits = <<>> \/ relevant = <<>>
            THEN /\ flowPc' = "returned"
                 /\ UNCHANGED filteredCommits
          ELSE /\ flowPc' = "generate"
               /\ filteredCommits' = relevant
  /\ UNCHANGED <<script, flowIn, files, flowLog, flowK, weeklySummaries,
                 notWorkflowVars>>

\* step 3 going on to the write whatever generateSummary did
PageGenerate_ignoresFailure ==
  /\ script = "page"
  /\ flowPc = "generate"
  /\ \E ok \in BOOLEAN :
       /\ flowLog' = Append(flowLog,
                            LogEntry("generate", "date", Len(filteredCommits),
                                     needsChunking(filteredCommits), ok))
       /\ flowPc' = "write"
  /\ UNCHANGED <<script, flowIn, files, flowK, weeklySummaries,
                 filteredCommits, notWorkflowVars>>

\* step 3: createLLMService and await llmService.generateSummary; a
\* rejection is caught at the end of run(), which exits
PageGenerate ==
  /\ script = "page"
  /\ flowPc = "generate"
  /\ \E ok \in BOOLEAN :
       /\ flowLog' = Append(flowLog,
                            LogEntry("generate", "date", Len(filteredCommits),
                                     needsChunking(filteredCommits), ok))
       /\ flowPc' = IF ok THEN "write" ELSE "exit1"
  /\ UNCHANGED <<script, flowIn, files, flowK, weeklySummaries,
                 filteredCommits, notWorkflowVars>>

\* step 4: the page of the date is written
PageWrite ==
  /\ script = "page"
  /\ flowPc = "write"
  /\ files' = writeFile(files, "date")
  /\ flowLog' = Append(flowLog, LogEntry("write", "date", 0, FALSE, TRUE))
  /\ flowPc' = "index"
  /\ UNCHANGED <<script, flowIn, flowK, weeklySummaries, filteredCommits,
                 notWorkflowVars>>

\* step 5: updateIndexPage
PageIndex ==
  /\ script = "page"
  /\ flowPc = "index"
  /\ files' = writeFile(files, "index")
  /\ flowLog' = Append(flowLog, LogEntry("write", "index", 0, FALSE, TRUE))
  /\ flowPc' = "done"
  /\ UNCHANGED <<script, flowIn, flowK, weeklySummaries, filteredCommits,
                 notWorkflowVars>>

\* generate-weeklies, steps 1 to 3: read and aggregate the daily summaries;
\* without daily summaries the script exits
WeeklyScan ==
  /\ script = "weeklies"
  /\ flowPc = "start"
  /\ IF flowIn.weeks = <<>>
       THEN /\ flowPc' = "exit1"
            /\ UNCHANGED <<flowK, weeklySummaries>>
     ELSE /\ flowPc' = "generateLoop"
          /\ flowK' = 1
          /\ weeklySummaries' = {}
  /\ UNCHANGED <<script, flowIn, files, flowLog, filteredCommits,
                 notWorkflowVars>>

\* step 4, one pass of the for loop: a week whose file exists is skipped,
\* another one is generated; a rejection is caught at the end of run()
WeeklyGenerate ==
  /\ script = "weeklies"
  /\ flowPc = "generateLoop"
  /\ flowK <= Len(flowIn.weeks)
  /\ LET week == flowIn.weeks[flowK]
     IN IF Exists(files, week)
          THEN /\ flowK' = flowK + 1
               /\ UNCHANGED <<flowPc, flowLog, weeklySummaries>>
        ELSE \E ok \in BOOLEAN :
               /\ flowLog' = Append(flowLog,
                                    LogEntry("generate", week, 0, FALSE, ok))
               /\ IF ok
                    THEN /\ weeklySummaries' = weeklySummaries \cup {week}
                         /\ flowK' = flowK + 1
                         /\ UNCHANGED flowPc
                  ELSE /\ flowPc' = "exit1"
                       /\ UNCHANGED <<flowK, weeklySummaries>>
  /\ UNCHANGED <<script, flowIn, files, filteredCommits, notWorkflowVars>>

\* the generation loop is over: step 5 starts
WeeklyGenerated ==
  /\ script = "weeklies"
  /\ flowPc = "generateLoop"
  /\ flowK > Len(flowIn.weeks)
  /\ flowPc' = "writeLoop"
  /\ flowK' = 1
  /\ UNCHANGED <<script, flowIn, files, flowLog, weeklySummaries,
                 filteredCommits, notWorkflowVars>>

\* step 5, one pass of the for loop: the page of a week with a new summary
\* is written, a skipped week is passed over
WeeklyWrite ==
  /\ script = "weeklies"
  /\ flowPc = "writeLoop"
  /\ flowK <= Len(flowIn.weeks)
  /\ LET week == flowIn.weeks[flowK]
     IN IF week \in weeklySummaries
          THEN /\ files' = writeFile(files, week)
               /\ flowLog' = Append(flowLog,
                                    LogEntry("write", week, 0, FALSE, TRUE))
        ELSE UNCHANGED <<files, flowLog>>
  /\ flowK' = flowK + 1
  /\ UNCHANGED <<script, flowPc, flowIn, weeklySummaries, filteredCommits,
                 notWorkflowVars>>

\* updateWeekliesIndex
WeeklyIndex ==
  /\ script = "weeklies"
  /\ flowPc = "writeLoop"
  /\ flowK > Len(flowIn.weeks)
  /\ files' = writeFile(files, "weeklies")
  /\ flowLog' = Append(flowLog, LogEntry("write", "weeklies", 0, FALSE, TRUE))
  /\ flowPc' = "done"
  /\ UNCHANGED <<script, flowIn, flowK, weeklySummaries, filteredCommits,
                 notWorkflowVars>>

\* the script is run again on the output directory as the run left it
RunAgain ==
  /\ flowPc = "done"
  /\ flowIn.run < MaxRuns
  /\ flowIn' = [flowIn EXCEPT !.run = @ + 1, !.files0 = files]
  /\ flowPc' = "start"
  /\ flowLog' = <<>>
  /\ flowK' = 0
  /\ weeklySummaries' = {}
  /\ filteredCommits' = <<>>
  /\ UNCHANGED <<script, files, notWorkflowVars>>

NextWorkflow ==
  \/ PageFetch
  \/ PageGenerate
  \/ PageWrite
  \/ PageIndex
  \/ WeeklyScan
  \/ WeeklyGenerate
  \/ WeeklyGenerated
  \/ WeeklyWrite
  \/ WeeklyIndex
  \/ RunAgain

SpecWorkflow == InitWorkflow /\ [][NextWorkflow]_vars

\* the last entry of the log is a generation that failed
GenerationFailed(log) ==
  /\ log # <<>>
  /\ log[Len(log)].op = "generate"
  /\ ~log[Len(log)].ok

\* C33: when the generation fails in generate-page or generate-weeklies,
\* the step of the failure leaves every file as it was and ends the script
\* with exit code 1; the script takes no further step, and every file of
\* the output directory is as it was when the run started.
C33_FailedGenerationWritesNothing ==
  /\ [](flowPc = "exit1" => files = flowIn.files0)
  /\ [][/\ flowPc # "exit1"
        /\ (flowLog' # flowLog /\ GenerationFailed(flowLog'))
             => (files' = files /\ flowPc' = "exit1")]_vars

\* generate-weeklies has generated the first week, and the generation of
\* the second week failed
C33_Witness ==
  /\ script = "weeklies"
  /\ flowPc = "exit1"
  /\ Len(flowLog) = 2
  /\ flowLog[1].ok
  /\ GenerationFailed(flowLog)

\* the relevant commits of the day of a generate-page run
RelevantOfDay == IF flowIn.day > flowIn.bots THEN flowIn.day - flowIn.bots
                 ELSE 0

\* C34: when the day has more than 300 relevant commits, generate-page
\* passes all of them to generateSummary, which processes them in chunks.
C34_LargeDayIsChunked ==
  \A i \in 1..Len(flowLog) :
    (script = "page" /\ flowLog[i].op = "generate"
       /\ RelevantOfDay > CHUNK_THRESHOLD)
      => (flowLog[i].n = RelevantOfDay /\ flowLog[i].chunked)

\* C40: generate-weeklies makes no generation call and no write for a week
\* whose file exists at the start of the run, and leaves that file as it
\* is; a second run over the same daily summaries makes no generation call
\* and leaves every weekly page unchanged.
C40_ExistingWeekNotRegenerated ==
  script = "weeklies" =>
    /\ \A i \in 1..Len(flowLog) :
         flowLog[i].name \in {"W1", "W2"}
           => flowIn.files0[flowLog[i].name] = 0
    /\ \A w \in {"W1", "W2"} :
         flowIn.files0[w] > 0 => files[w] = flowIn.files0[w]
    /\ flowIn.run > 1 =>
         /\ \A i \in 1..Len(flowLog) : flowLog[i].op # "generate"
         /\ \A w \in {"W1", "W2"} : files[w] = flowIn.files0[w]

\* the second run over two weeks is over: both weeks have their page, and
\* the run has done nothing but write the weeklies index
C40_Witness ==
  /\ script = "weeklies"
  /\ flowIn.run = 2
  /\ flowPc = "done"
  /\ Len(flowIn.weeks) = 2
  /\ files["W1"] = 1
  /\ files["W2"] = 1
  /\ Len(flowLog) = 1
  /\ flowLog[1].name = "weeklies"

\* ------------------------------------------------------------------------
\* executePhasedAnalysis: the candidates parsed from the phase-1 answer
\* ------------------------------------------------------------------------
\* A text is a sequence of characters. /^[a-f0-9]{40}$/i: the length
HASH_HEX_LENGTH == 40

\* most lines of an answer
MaxLines == 2

\* \s
WhitespaceChars == {" ", "\t", "\r"}

\* [\s\-\*]
BulletChars == WhitespaceChars \cup {"-", "*"}

\* [a-f0-9] with the i flag, as far as the answers use them
HexChars == {"a", "e", "f", "A", "F", "0", "7"}

LowerChar(c) ==
  CASE c = "A" -> "a"
    [] c = "F" -> "f"
    [] c = "N" -> "n"
    [] OTHER -> c

lineToLowerCase(line) == [i \in 1..Len(line) |-> LowerChar(line[i])]

Rep(n, c) == [i \in 1..n |-> c]

\* the first position from start on that holds a character of the set, or
\* 0 when there is none
FirstIn(text, start, chars) ==
  LET at == {i \in start..Len(text) : text[i] \in chars}
  IN IF at = {} THEN 0 ELSE CHOOSE i \in at : \A k \in at : i <= k

\* the last position that holds a character of the set, or 0
LastIn(text, chars) ==
  LET at == {i \in 1..Len(text) : text[i] \in chars}
  IN IF at = {} THEN 0 ELSE CHOOSE i \in at : \A k \in at : i >= k

CharsOf(text) == {text[i] : i \in 1..Len(text)}

\* String.prototype.split('\n'), from position start on
RECURSIVE splitFrom(_, _)
splitFrom(text, start) ==
  LET nl == FirstIn(text, start, {"\n"})
  IN IF nl = 0 THEN <<SubSeq(text, start, Len(text))>>
     ELSE <<SubSeq(text, start, nl - 1)>> \o splitFrom(text, nl + 1)

splitLines(text) == splitFrom(text, 1)

\* String.prototype.trim
trim(line) ==
  LET kept == CharsOf(line) \ WhitespaceChars
  IN IF kept = {} THEN <<>>
     ELSE SubSeq(line, FirstIn(line, 1, kept), LastIn(line, kept))

\* line.replace(/^[\s\-\*]+/, '')
stripBullets(line) ==
  LET kept == CharsOf(line) \ BulletChars
  IN IF kept = {} THEN <<>>
     ELSE SubSeq(line, FirstIn(line, 1, kept), Len(line))

\* a test that accepts a line that contains 40 hex characters in a row
isCommitHash_unanchored(line) ==
  \E i \in 0..(Len(line) - HASH_HEX_LENGTH) :
    \A k \in 1..HASH_HEX_LENGTH : line[i + k] \in HexChars

\* /^[a-f0-9]{40}$/i.test(line)
isCommitHash(line) ==
  /\ Len(line) = HASH_HEX_LENGTH
  /\ \A k \in 1..Len(line) : line[k] \in HexChars

noPotential == <<"n", "o", " ", "p", "o", "t", "e", "n", "t", "i", "a", "l">>

\* the first filter: the line is not blank and does not say "no potential"
keepLine(line) ==
  /\ trim(line) # <<>>
  /\ ~includes(lineToLowerCase(line), noPotential)

\* split, filter, map, filter
parsePotentialBreakingCommits(content) ==
  LET kept == SelectSeq(splitLines(content), keepLine)
      stripped == [k \in 1..Len(kept) |-> trim(stripBullets(kept[k]))]
  IN SelectSeq(stripped, isCommitHash)

\* what a line of an answer starts with, holds and ends with
LinePrefixes == {<<>>, <<"-", " ">>, <<" ", "*", "\t">>}

LineBodies ==
  {<<>>,
   Rep(HASH_HEX_LENGTH, "a"),
   Rep(HASH_HEX_LENGTH - 1, "7") \o <<"F">>,
   Rep(HASH_HEX_LENGTH - 1, "a"),
   Rep(HASH_HEX_LENGTH + 1, "a"),
   Rep(HASH_HEX_LENGTH - 1, "a") \o <<"g">>,
   Rep(HASH_HEX_LENGTH, "e") \o <<" ", "A", "P", "I">>,
   Rep(HASH_HEX_LENGTH - 20, "0") \o <<"-">> \o Rep(19, "0"),
   <<"N", "o", " ", "p", "o", "t", "e", "n", "t", "i", "a", "l", ".">>}

LineSuffixes == {<<>>, <<" ", "\r">>}

AnswerLines ==
  {pre \o body \o suf :
     pre \in LinePrefixes, body \in LineBodies, suf \in LineSuffixes}

\* lines joined by line feeds
RECURSIVE joinLines(_)
joinLines(lines) ==
  IF lines = <<>> THEN <<>>
  ELSE IF Len(lines) = 1 THEN lines[1]
  ELSE lines[1] \o <<"\n">> \o joinLines(Tail(lines))

NotParsed == [done |-> FALSE, candidates |-> <<>>]

InitParse ==
  /\ StrategyRest
  /\ ExecRest
  /\ RetryRest
  /\ PhasedRest
  /\ ToolingRest
  /\ ServiceRest
  /\ WorkflowRest
  /\ StreamRest
  /\ \E n \in 0..MaxLines : \E lines \in [1..n -> AnswerLines] :
       parseIn = joinLines(lines)
  /\ parseOut = NotParsed

\* const potentialBreakingCommits = response.content.split(...)...
ParseResponse ==
  /\ ~parseOut.done
  /\ parseOut' = [done |-> TRUE,
                  candidates |-> parsePotentialBreakingCommits(parseIn)]
  /\ UNCHANGED <<parseIn, strategyVars, execVars, retryVars, phasedVars,
                 pairVars, fetchVars, adapterVars, promptVars, serviceVars,
                 workflowVars, streamVars>>

NextParse == ParseResponse

SpecParse == InitParse /\ [][NextParse]_vars

\* the text holds c as a line: after leading bullets and whitespace, and
\* followed by nothing but whitespace up to the end of the line
OccursAsLine(text, c) ==
  \E i \in 1..(Len(text) - Len(c) + 1) :
    /\ SubSeq(text, i, i + Len(c) - 1) = c
    /\ \E from \in 1..i :
         /\ from = 1 \/ text[from - 1] = "\n"
         /\ \A k \in from..(i - 1) : text[k] \in BulletChars
    /\ \E to \in (i + Len(c) - 1)..Len(text) :
         /\ to = Len(text) \/ text[to + 1] = "\n"
         /\ \A k \in (i + Len(c))..to : text[k] \in WhitespaceChars

\* C37: every candidate parsed from the phase-1 answer is a string of
\* exactly 40 hexadecimal characters that occurs in the answer as a line,
\* leading bullets and surrounding whitespace aside; an answer without
\* such a line, like a "No potential ..." sentence, yields no candidate.
C37_CandidatesAreHashLines ==
  parseOut.done =>
    /\ \A k \in 1..Len(parseOut.candidates) :
         LET c == parseOut.candidates[k]
         IN /\ Len(c) = 40
            /\ \A j \in 1..Len(c) : c[j] \in HexChars
            /\ OccursAsLine(parseIn, c)
    /\ (\A c \in {Rep(40, "a"), Rep(39, "7") \o <<"F">>} :
          ~OccursAsLine(parseIn, c))
         => parseOut.candidates = <<>>

\* an answer of a sentence and a bulleted hash has been parsed
C37_Witness ==
  /\ parseOut.done
  /\ includes(lineToLowerCase(parseIn), noPotential)
  /\ parseOut.candidates = <<Rep(39, "7") \o <<"F">> >>

\* ------------------------------------------------------------------------
\* NexosAdapter.callAPI: the streamed response
\* ------------------------------------------------------------------------
\* most lines of a response body
MaxStreamLines == 3

\* a tool_calls entry of a delta; "" and <<>> stand for an absent or empty
\* field, index "none" for an absent index; the indices are "0" and "1"
Fragment(index, id, name, arguments) ==
  [index |-> index, id |-> id, name |-> name, arguments |-> arguments]

Fragments ==
  {Fragment("0", "a", "get_commit_details", <<>>),
   Fragment("none", "", "", <<1>>),
   Fragment("0", "", "", <<2>>),
   Fragment("1", "b", "get_commit_details", <<1>>),
   Fragment("1", "", "", <<2>>),
   Fragment("1", "b", "", <<>>)}

\* a line of the body: whether it starts with 'data: ', what follows
\* ("[DONE]", text JSON.parse rejects, or a chunk), and the delta of the
\* chunk
StreamLine(isData, payload, content, tcs) ==
  [isData |-> isData, payload |-> payload, content |-> content,
   tool_calls |-> tcs]

StreamLines ==
  {StreamLine(TRUE, "chunk", <<>>, <<f>>) : f \in Fragments}
  \cup {StreamLine(TRUE, "chunk", <<7>>, <<>>),
        StreamLine(TRUE, "chunk", <<8>>,
                   <<Fragment("0", "a", "get_commit_details", <<1>>),
                     Fragment("1", "", "get_commit_details", <<2>>)>>),
        StreamLine(TRUE, "malformed", <<7>>, <<Fragment("0", "", "", <<2>>)>>),
        StreamLine(TRUE, "[DONE]", <<>>, <<>>),
        StreamLine(FALSE, "chunk", <<7>>, <<Fragment("1", "", "", <<2>>)>>)}

NothingReturned == [made |-> FALSE, content |-> <<>>, toolCalls |-> <<>>]

\* const index = toolCall.index ?? 0
IndexOf(fragment) == IF fragment.index = "none" THEN "0" ELSE fragment.index

\* the position of the entry of the index in the map, or 0
EntryAt(map, index) ==
  IF \E k \in 1..Len(map) : map[k].index = index
    THEN CHOOSE k \in 1..Len(map) : map[k].index = index
  ELSE 0

\* the body of "for (const toolCall of delta.tool_calls)"
MergeFragment(map, fragment) ==
  LET index == IndexOf(fragment)
      withEntry == IF EntryAt(map, index) = 0
                     THEN Append(map, [index |-> index, id |-> "",
                                       name |-> "", arguments |-> <<>>])
                   ELSE map
      k == EntryAt(withEntry, index)
      existing == withEntry[k]
  IN [withEntry EXCEPT ![k] =
        [index |-> index,
         id |-> IF fragment.id # "" THEN fragment.id ELSE existing.id,
         name |-> IF fragment.name # "" THEN fragment.name
                  ELSE existing.name,
         arguments |-> IF fragment.arguments # <<>>
                         THEN existing.arguments \o fragment.arguments
                       ELSE existing.arguments]]

RECURSIVE MergeFragments(_, _)
MergeFragments(map, tcs) ==
  IF tcs = <<>> THEN map
  ELSE MergeFragments(MergeFragment(map, Head(tcs)), Tail(tcs))

\* a filter that takes the id for the whole invocation
isComplete_idOnly(toolCall) == toolCall.id # ""

\* toolCall.id && toolCall.name && toolCall.arguments
isComplete(toolCall) ==
  /\ toolCall.id # ""
  /\ toolCall.name # ""
  /\ toolCall.arguments # <<>>

\* the conversion of the map to the toolCalls array
ToolCallsOf(map) ==
  LET complete == SelectSeq(map, isComplete)
  IN [k \in 1..Len(complete) |->
        [id |-> complete[k].id, name |-> complete[k].name,
         arguments |-> complete[k].arguments]]

InitStream ==
  /\ StrategyRest
  /\ ExecRest
  /\ RetryRest
  /\ PhasedRest
  /\ ToolingRest
  /\ ServiceRest
  /\ WorkflowRest
  /\ ParseRest
  /\ stream \in UNION {[1..n -> StreamLines] : n \in 0..MaxStreamLines}
  /\ streamPc = "reading"
  /\ streamPos = 0
  /\ toolCallsMap = <<>>
  /\ fullContent = <<>>
  /\ returned = NothingReturned

notStreamVars == <<strategyVars, execVars, retryVars, phasedVars, pairVars,
                   fetchVars, adapterVars, promptVars, serviceVars,
                   workflowVars, parseVars>>

\* reader.read() resolves with the next part of the body
StreamRead ==
  /\ streamPc = "reading"
  /\ streamPos < Len(stream)
  /\ streamPos' = streamPos + 1
  /\ UNCHANGED <<stream, streamPc, toolCallsMap, fullContent, returned,
                 notStreamVars>>

\* reader.read() rejects: callAPI rethrows
StreamReadFails ==
  /\ streamPc = "reading"
  /\ streamPos < Len(stream)
  /\ streamPc' = "failed"
  /\ UNCHANGED <<stream, streamPos, toolCallsMap, fullContent, returned,
                 notStreamVars>>

\* reader.read() resolves with done: the body is split into lines
StreamEnds ==
  /\ streamPc = "reading"
  /\ streamPos = Len(stream)
  /\ streamPc' = "merging"
  /\ streamPos' = 0
  /\ UNCHANGED <<stream, toolCallsMap, fullContent, returned, notStreamVars>>

\* one pass of "for (const line of lines)"
StreamMergeLine ==
  /\ streamPc = "merging"
  /\ streamPos < Len(stream)
  /\ streamPos' = streamPos + 1
  /\ LET line == stream[streamPos + 1]
     IN IF line.isData /\ line.payload = "chunk"
          THEN /\ fullContent' = fullContent \o line.content
               /\ toolCallsMap' = MergeFragments(toolCallsMap, line.tool_calls)
        ELSE UNCHANGED <<fullContent, toolCallsMap>>
  /\ UNCHANGED <<stream, streamPc, returned, notStreamVars>>

\* the map is converted and callAPI returns
StreamReturn ==
  /\ streamPc = "merging"
  /\ streamPos = Len(stream)
  /\ returned' = [made |-> TRUE, content |-> fullContent,
                  toolCalls |-> ToolCallsOf(toolCallsMap)]
  /\ streamPc' = "returned"
  /\ UNCHANGED <<stream, streamPos, toolCallsMap, fullContent, notStreamVars>>

NextStream ==
  \/ StreamRead
  \/ StreamReadFails
  \/ StreamEnds
  \/ StreamMergeLine
  \/ StreamReturn

SpecStream == InitStream /\ [][NextStream]_vars

\* the fragments of the chunks of the body, in arrival order
RECURSIVE ArrivedFragments(_)
ArrivedFragments(lines) ==
  IF lines = <<>> THEN <<>>
  ELSE (IF Head(lines).isData /\ Head(lines).payload = "chunk"
          THEN Head(lines).tool_calls ELSE <<>>)
       \o ArrivedFragments(Tail(lines))

\* the argument fragments of an index, concatenated in arrival order
RECURSIVE ArgumentsOf(_, _)
ArgumentsOf(frags, index) ==
  IF frags = <<>> THEN <<>>
  ELSE (IF (Head(frags).index = index
            \/ (index = "0" /\ Head(frags).index = "none"))
          THEN Head(frags).arguments ELSE <<>>)
       \o ArgumentsOf(Tail(frags), index)

\* the index has got a field of this kind
HasField(frags, index, field) ==
  \E k \in 1..Len(frags) :
    /\ frags[k].index = index \/ (index = "0" /\ frags[k].index = "none")
    /\ frags[k][field] # ""

\* the indices whose invocation has arrived whole
WholeIndices(frags) ==
  {i \in {"0", "1"} : /\ HasField(frags, i, "id")
                  /\ HasField(frags, i, "name")
                  /\ ArgumentsOf(frags, i) # <<>>}

\* C38: NexosAdapter.callAPI returns nothing before the whole body has been
\* read and merged; every invocation it returns has an id, a name and
\* arguments, the arguments being the concatenation, in arrival order, of
\* all argument fragments of one index; and it returns one invocation for
\* each index that has all three, none for an incomplete one.
C38_NoPartialToolCall ==
  /\ streamPc \in {"reading", "merging", "failed"} => ~returned.made
  /\ returned.made =>
       LET frags == ArrivedFragments(stream)
           calls == returned.toolCalls
       IN /\ streamPc = "returned"
          /\ \A k \in 1..Len(calls) :
               /\ calls[k].id # ""
               /\ calls[k].name # ""
               /\ calls[k].arguments # <<>>
               /\ \E i \in WholeIndices(frags) :
                    calls[k].arguments = ArgumentsOf(frags, i)
          /\ Len(calls) = Cardinality(WholeIndices(frags))

\* a body of three lines has been handled: index 0 got its id and name
\* first and its arguments in two fragments, index 1 never got a name
C38_Witness ==
  /\ returned.made
  /\ Len(stream) = 3
  /\ Len(toolCallsMap) = 2
  /\ Len(returned.toolCalls) = 1
  /\ returned.toolCalls[1].arguments = <<1, 2>>

\* ------------------------------------------------------------------------
\* The earlier Gemini service: generateChunkSummary and generateSummary
\* ------------------------------------------------------------------------
\* generateChunkSummary: const MAX_ITERATIONS
CHUNK_SUMMARY_MAX_ITERATIONS == 5

\* what generateContentWithRetry ends with: a rejection, an answer with
\* function calls, or a plain text
ContentOutcomes ==
  {[ok |-> FALSE, calls |-> FALSE, text |-> EmptyText],
   [ok |-> TRUE, calls |-> TRUE, text |-> EmptyText]}
  \cup {[ok |-> TRUE, calls |-> FALSE, text |-> Txt("text", <<t>>)] :
          t \in 1..NumTexts}

\* finalResponse.text: a JSON object or something JSON.parse rejects
FinalTexts == {Txt("json", <<1>>), Txt("garbage", <<>>)}

LegacyTurn(role, text) == [role |-> role, text |-> text]

\* the prompt generateChunkSummary starts its chat history with
chunkPrompt(cs, chunkIndex) == Txt("chunkPrompt", <<chunkIndex + 1>> \o cs)

\* summaryInput of the chunked path
summaryInput(summaries) ==
  Txt("summaryInput", [k \in 1..Len(summaries) |-> summaries[k].data[1]])

InitLegacy ==
  /\ commits \in {Batch(n) : n \in BatchSizes}
  /\ adapter = "gemini"
  /\ InitRest
  /\ ExecRest
  /\ RetryRest
  /\ PhasedRest
  /\ AuxRest

legacyFrame == <<adapter, commits, chunkComplete, lastCall, lastExec, obs,
                 execVars, retryVars, phasedVars, auxVars>>

\* generateSummary up to its first call: the chunking decision, the chunks,
\* and the chat history of the first chunk or of the investigation
LegacyStart ==
  /\ adapter = "gemini"
  /\ pc = "idle"
  /\ IF needsChunking(commits)
       THEN /\ chunks' = SplitIntoChunks(commits)
            /\ messages' = <<LegacyTurn("user",
                                  chunkPrompt(SplitIntoChunks(commits)[1], 0))>>
            /\ pc' = "chunkLoop"
     ELSE /\ chunks' = <<>>
          /\ messages' = <<LegacyTurn("user", createAgenticPrompt(commits))>>
          /\ pc' = "loop"
  /\ idx' = 0
  /\ chunkSummaries' = <<>>
  /\ iteration' = 0
  /\ UNCHANGED <<result, error, legacyFrame>>

\* one pass of the while loop of generateChunkSummary; a plain answer is
\* the summary of the chunk, which generateSummary pushes before it calls
\* generateChunkSummary for the next chunk or builds summaryInput
LegacyChunkIterate ==
  /\ adapter = "gemini"
  /\ pc = "chunkLoop"
  /\ iteration < CHUNK_SUMMARY_MAX_ITERATIONS
  /\ \E out \in ContentOutcomes :
       IF ~out.ok
         THEN /\ pc' = "failed"
              /\ error' = "provider"
              /\ iteration' = iteration + 1
              /\ UNCHANGED <<messages, idx, chunkSummaries>>
       ELSE IF out.calls
         THEN /\ messages' = messages \o <<LegacyTurn("model", out.text),
                                           LegacyTurn("user", Txt("functionResponses", <<>>))>>
              /\ iteration' = iteration + 1
              /\ UNCHANGED <<pc, error, idx, chunkSummaries>>
       ELSE /\ chunkSummaries' = Append(chunkSummaries, out.text)
            /\ idx' = idx + 1
            /\ iteration' = 0
            /\ UNCHANGED error
            /\ IF idx + 1 < Len(chunks)
                 THEN /\ messages' = <<LegacyTurn("user",
                                            chunkPrompt(chunks[idx + 2], idx + 1))>>
                      /\ UNCHANGED pc
               ELSE /\ messages' =
                         <<LegacyTurn("user",
                                summaryInput(Append(chunkSummaries, out.text)))>>
                    /\ pc' = "final"
  /\ UNCHANGED <<chunks, result, legacyFrame>>

\* the while loop of generateChunkSummary ends with the cap reached:
\* throw new Error('Max iterations reached in chunk summary'), which
\* generateSummary does not catch
LegacyChunkCapped ==
  /\ adapter = "gemini"
  /\ pc = "chunkLoop"
  /\ iteration >= CHUNK_SUMMARY_MAX_ITERATIONS
  /\ pc' = "failed"
  /\ error' = "maxIterations"
  /\ UNCHANGED <<messages, chunks, idx, chunkSummaries, iteration, result,
                 legacyFrame>>

\* one pass of the investigation loop of the non-chunked path
LegacyIterate ==
  /\ adapter = "gemini"
  /\ pc = "loop"
  /\ iteration < MAX_ITERATIONS
  /\ \E out \in ContentOutcomes :
       /\ iteration' = iteration + 1
       /\ IF ~out.ok
            THEN /\ pc' = "failed"
                 /\ error' = "provider"
                 /\ UNCHANGED messages
          ELSE IF out.calls
            THEN /\ messages' = messages \o <<LegacyTurn("model", out.text),
                                              LegacyTurn("user", Txt("functionResponses", <<>>))>>
                 /\ UNCHANGED <<pc, error>>
          ELSE /\ messages' = Append(messages, LegacyTurn("model", out.text))
               /\ pc' = "final"
               /\ UNCHANGED error
  /\ UNCHANGED <<chunks, idx, chunkSummaries, result, legacyFrame>>

\* phase 2: the final JSON call, made after the chunks, after the
\* investigation, or when the investigation loop has run out
LegacyFinalJson ==
  /\ adapter = "gemini"
  /\ \/ pc = "final"
     \/ pc = "loop" /\ iteration >= MAX_ITERATIONS
  /\ \E out \in {[ok |-> FALSE, content |-> EmptyText]}
                \cup {[ok |-> TRUE, content |-> c] : c \in FinalTexts} :
       /\ messages' = Append(messages, LegacyTurn("user", createFinalJsonPrompt))
       /\ IF ~out.ok
            THEN /\ pc' = "failed"
                 /\ error' = "provider"
                 /\ UNCHANGED result
          ELSE IF JSONparseThrows(out.content)
            THEN /\ pc' = "failed"
                 /\ error' = "parse"
                 /\ UNCHANGED result
          ELSE /\ pc' = "done"
               /\ result' = JSONparse(out.content)
               /\ UNCHANGED error
  /\ UNCHANGED <<chunks, idx, chunkSummaries, iteration, legacyFrame>>

NextLegacy ==
  \/ LegacyStart
  \/ LegacyChunkIterate
  \/ LegacyChunkCapped
  \/ LegacyIterate
  \/ LegacyFinalJson

SpecLegacy == InitLegacy /\ [][NextLegacy]_vars

\* C35: generateChunkSummary never surfaces the iteration cap as a thrown
\* error: when the model has requested tools in all 5 iterations of a
\* chunk, the chunk still yields a summary and generateSummary goes on.
C35_CapYieldsSummary ==
  [][(pc = "chunkLoop" /\ iteration >= CHUNK_SUMMARY_MAX_ITERATIONS)
       => (/\ pc' # "failed"
           /\ Len(chunkSummaries') = Len(chunkSummaries) + 1)]_vars

TypeOK ==
  /\ pc \in {"idle", "chunkStart", "chunkLoop", "loop", "final", "done",
             "failed"}
  /\ iteration \in 0..(MAX_ITERATIONS + 1)
  /\ idx \in 0..Len(chunks)

\* ------------------------------------------------------------------------
\* Properties
\* ------------------------------------------------------------------------
UserTurn(content) == Turn("user", "text", content, <<>>)

NoTools == [enableTools |-> FALSE, requestJson |-> FALSE]

JsonMode == [enableTools |-> FALSE, requestJson |-> TRUE]

Terminal == pc \in {"done", "failed"}

\* the model asked for tools in every iteration and the loop is exhausted
ChunkCapReached == pc = "chunkLoop" /\ iteration = MAX_ITERATIONS

SingleCapReached == pc = "loop" /\ iteration = MAX_ITERATIONS

\* C1: in the chunked path, a chunk whose loop reached its cap with the
\* model still requesting tools gets exactly one fallback user prompt and
\* exactly one adapter call with tools disabled; that call's text becomes
\* the chunk's summary and the engine goes on to the next chunk; the only
\* way the step fails is a failure of the adapter call itself.
C1_ChunkCapFallback ==
  [][ChunkCapReached =>
       /\ lastCall'.made
       /\ lastCall'.options = NoTools
       /\ lastCall'.msgs = Append(messages, UserTurn(FallbackPrompt))
       /\ obs'.fallbackPrompts = 1
       /\ obs'.fallbackCalls = 1
       /\ obs'.loopCalls = obs.loopCalls
       /\ obs'.jsonCalls = obs.jsonCalls
       /\ obs'.execCount = obs.execCount
       /\ IF lastCall'.ok
            THEN /\ chunkSummaries' = Append(chunkSummaries, lastCall'.content)
                 /\ idx' = idx + 1
                 /\ pc' = "chunkStart"
                 /\ error' = "none"
          ELSE pc' = "failed" /\ error' = "provider"]_vars

C1_Witness ==
  /\ pc = "chunkStart"
  /\ iteration = MAX_ITERATIONS
  /\ obs.toolRounds = MAX_ITERATIONS
  /\ obs.fallbackCalls = 1
  /\ Len(chunkSummaries) = idx
  /\ idx > 0
  /\ chunkSummaries[idx] = lastCall.content
  /\ lastCall.options = NoTools

HasErrorText(resps) == \E i \in 1..Len(resps) : resps[i].tag = "toolError"

HasErrorTurn(hist) == \E i \in 1..Len(hist) : hist[i].content.tag = "toolError"

\* C3: for both adapters, when a fetch throws during the tool round the
\* model just asked for, the generation is not aborted and the conversation
\* holds a tool turn with the error string (which the next call sends).
C3_ToolErrorContinues ==
  (/\ lastExec.ran
   /\ lastCall.toolCalls = lastExec.calls
   /\ HasErrorText(lastExec.responses))
  => pc # "failed" /\ HasErrorTurn(messages)

\* C4: the JSON-mode call is made exactly when the generation reaches the
\* final step (after the synthesis prompt, after natural completion or
\* after the exhausted loop of the non-chunked path): it sends the
\* conversation plus the final-JSON prompt with tools disabled; no call
\* made anywhere else has JSON mode on; after it no step is taken (no
\* adapter call, no tool execution); a generation that returned made
\* exactly one such call.
C4_FinalJsonStep ==
  [][/\ (pc = "final" \/ SingleCapReached) =>
          /\ lastCall'.made
          /\ lastCall'.options = JsonMode
          /\ lastCall'.msgs = Append(messages, UserTurn(createFinalJsonPrompt))
          /\ obs'.jsonCalls = 1
          /\ lastExec' = lastExec
          /\ pc' \in {"done", "failed"}
     /\ ~(pc = "final" \/ SingleCapReached) =>
          /\ obs'.jsonCalls = 0
          /\ lastCall'.made => ~lastCall'.options.requestJson
     /\ obs.jsonCalls = 0
     /\ pc' = "done" => obs'.jsonCalls = 1 /\ lastCall'.options = JsonMode]_vars

C4_Witness ==
  /\ pc = "done"
  /\ obs.jsonCalls = 1
  /\ lastCall.options = JsonMode
  /\ Len(chunkSummaries) > 1
  /\ lastCall.msgs[Len(lastCall.msgs)] = UserTurn(createFinalJsonPrompt)

\* the text "not json"
NotJson == Txt("text", <<0>>)

\* C5: when the final JSON-mode call returns text that is not JSON, the
\* generation ends with an error, returns no StructuredSummary, and takes
\* no further step (no retry, no further adapter call).
C5_UnparseableIsFatal ==
  [][/\ (lastCall'.made /\ lastCall'.ok /\ lastCall'.options.requestJson
         /\ lastCall'.content = NotJson) =>
          /\ pc' = "failed"
          /\ error' = "parse"
          /\ result' = NoValue
     /\ error # "parse"]_vars

C5_Witness ==
  /\ pc = "failed"
  /\ error = "parse"
  /\ result = NoValue
  /\ lastCall.options = JsonMode
  /\ lastCall.content = NotJson

\* C6: a generation returns only values of the StructuredSummary shape
\* (JSON of another shape fails the generation).
C6_ShapeChecked == pc = "done" => result = Txt("value", <<1>>)

\* C7: for any single chunk (or the whole batch when it is not chunked) the
\* investigation makes at most MAX_ITERATIONS calls to the adapter.
C7_AtMostMaxIterations == obs.loopCalls <= MAX_ITERATIONS

C7_Witness ==
  /\ obs.loopCalls = MAX_ITERATIONS
  /\ obs.toolRounds = MAX_ITERATIONS
  /\ pc \in {"loop", "chunkLoop"}

\* C8: in the chunked path a chunk's investigation makes at most
\* MAX_CHUNK_ITERATIONS (5) calls.
C8_ChunkCapIsFive ==
  needsChunking(commits) => obs.loopCalls <= MAX_CHUNK_ITERATIONS

RequestedIds(tcs) == [i \in 1..Len(tcs) |-> tcs[i].arguments.data]

\* C9: when the batch is not chunked and the model answered k calls with
\* tool invocations and the next with plain text, then by the time of the
\* JSON-mode call there were k + 1 calls with JSON mode off and tools on,
\* no other call with JSON mode off, one call with JSON mode on, and k runs
\* of the Tool Executor; every run fetched exactly the identifier lists the
\* model requested in that round.
C9_CallAndExecCounts ==
  [][/\ (~needsChunking(commits) /\ obs'.natural /\ obs'.jsonCalls = 1) =>
          /\ obs'.toolRounds < MAX_ITERATIONS
          /\ obs'.loopCalls = obs'.toolRounds + 1
          /\ obs'.fallbackCalls = 0
          /\ obs'.execCount = obs'.toolRounds
     /\ (lastCall'.made /\ lastCall'.ok /\ Len(lastCall'.toolCalls) > 0) =>
          /\ lastExec'.ran
          /\ lastExec'.calls = lastCall'.toolCalls
          /\ lastExec'.fetches = RequestedIds(lastCall'.toolCalls)
          /\ obs'.execCount = obs.execCount + 1
     /\ obs'.execCount # obs.execCount =>
          \/ lastCall'.made /\ lastCall'.ok /\ Len(lastCall'.toolCalls) > 0
          \/ obs'.execCount = 0]_vars

C9_Witness ==
  /\ ~needsChunking(commits)
  /\ pc = "done"
  /\ obs.natural
  /\ obs.toolRounds = 1
  /\ obs.loopCalls = 2
  /\ obs.jsonCalls = 1
  /\ obs.execCount = 1
  /\ lastExec.fetches = << <<1, 2, 3>> >>

RECURSIVE Flatten(_)
Flatten(ss) == IF ss = <<>> THEN <<>> ELSE Head(ss) \o Flatten(Tail(ss))

CeilDiv(a, b) == (a + b - 1) \div b

\* C10: a batch of n > 300 records is split into exactly ceil(n / 250)
\* chunks; the chunks concatenated in order are the batch; every chunk but
\* the last has 250 records and the last has between 1 and 250.
C10_Chunking ==
  (pc = "chunkStart" /\ Len(commits) > 300) =>
     /\ Len(chunks) = CeilDiv(Len(commits), 250)
     /\ Flatten(chunks) = commits
     /\ \A i \in 1..(Len(chunks) - 1) : Len(chunks[i]) = 250
     /\ Len(chunks[Len(chunks)]) \in 1..250

C10_Witness ==
  /\ pc = "chunkStart"
  /\ Len(commits) = 520
  /\ commits[1] = 520
  /\ Len(chunks) = 3
  /\ Len(chunks[1]) = 250
  /\ Len(chunks[2]) = 250
  /\ Len(chunks[3]) = 20
  /\ chunks[3][20] = 1

HasPrompt(hist, tag) == \E i \in 1..Len(hist) : hist[i].content.tag = tag

CountPrompts(hist, tag) ==
  Cardinality({i \in 1..Len(hist) : hist[i].content.tag = tag})

\* C11: a batch of at most 300 records is never split: no chunk and no chunk
\* summary exists, the conversation is never reset after its start, it
\* holds exactly one investigation prompt, which embeds the whole batch, and
\* no synthesis prompt is ever built or sent.
C11_SmallBatchOneChunk ==
  Len(commits) <= 300 =>
    /\ chunks = <<>>
    /\ chunkSummaries = <<>>
    /\ pc \notin {"chunkStart", "chunkLoop"}
    /\ ~HasPrompt(messages, "synthesisPrompt")
    /\ ~HasPrompt(lastCall.msgs, "synthesisPrompt")
    /\ pc # "idle" =>
         /\ messages[1] = UserTurn(Txt("agenticPrompt", commits))
         /\ CountPrompts(messages, "agenticPrompt") = 1
    /\ lastCall.made =>
         /\ lastCall.msgs[1] = UserTurn(Txt("agenticPrompt", commits))
         /\ obs.sinceReset = obs.loopCalls + obs.jsonCalls

C11_Witness ==
  /\ Len(commits) = 300
  /\ pc = "done"
  /\ obs.toolRounds = 2
  /\ obs.jsonCalls = 1
  /\ messages[1] = UserTurn(Txt("agenticPrompt", commits))

SummaryTexts == [i \in 1..Len(chunkSummaries) |-> chunkSummaries[i].data[1]]

SynthesisTurn == UserTurn(Txt("synthesisPrompt", SummaryTexts))

\* C12 (as stated): in the chunked path the JSON-mode call is the second
\* call on the synthesis conversation: one synthesis call precedes it.
C12_SynthesisCallBeforeJson ==
  (needsChunking(commits) /\ obs.jsonCalls = 1) => obs.sinceReset = 2

\* C12 (amended): in the chunked path, after the last chunk summary is
\* produced the engine resets the conversation and appends exactly one
\* synthesis prompt (embedding every chunk summary) without calling the
\* adapter; the next and only call on that conversation is the final
\* JSON-mode call, which sends the synthesis prompt and the final-JSON
\* prompt together.
C12_SynthesisSentWithFinalJson ==
  [][/\ (pc = "chunkStart" /\ idx = Len(chunks)) =>
          /\ messages' = <<SynthesisTurn>>
          /\ Len(chunkSummaries) = Len(chunks)
          /\ lastCall' = lastCall
          /\ obs'.sinceReset = 0
          /\ pc' = "final"
     /\ (pc = "final" /\ needsChunking(commits)) =>
          /\ messages = <<SynthesisTurn>>
          /\ lastCall'.made
          /\ lastCall'.options = JsonMode
          /\ lastCall'.msgs = <<SynthesisTurn, UserTurn(createFinalJsonPrompt)>>
          /\ obs'.sinceReset = 1
          /\ obs'.jsonCalls = 1]_vars

C12_Witness ==
  /\ Len(commits) = 520
  /\ Len(chunks) = 3
  /\ Len(chunks[1]) = 250
  /\ Len(chunks[2]) = 250
  /\ Len(chunks[3]) = 20
  /\ Len(chunkSummaries) = 3
  /\ chunkSummaries[1] # chunkSummaries[2]
  /\ pc = "done"
  /\ obs.sinceReset = 1
  /\ lastCall.msgs = <<SynthesisTurn, UserTurn(createFinalJsonPrompt)>>

IsToolTurn(t) ==
  t.kind = "functionResponse" \/ t.content.tag \in {"toolResult", "toolError"}

IsInvokingTurn(t) == t.role \in {"assistant", "model"} /\ Len(t.toolCalls) > 0

\* the tool turn t answers the invocation tc
Answers(t, tc) ==
  t.content.tag = "toolError" \/ t.content.data = tc.arguments.data

IsPrefix(a, b) == Len(a) <= Len(b) /\ SubSeq(b, 1, Len(a)) = a

\* C13: in every conversation state each tool turn follows, with only tool
\* turns in between, the assistant turn that carried the invocation it
\* answers; every answer of the model that carried invocations is recorded
\* as exactly one assistant turn; and, short of a reset, a step only
\* appends turns to the conversation.
C13_TurnOrder ==
  [][/\ \A i \in 1..Len(messages') :
          IsToolTurn(messages'[i]) =>
            \E j \in 1..(i - 1) :
              /\ IsInvokingTurn(messages'[j])
              /\ \A k \in (j + 1)..i : IsToolTurn(messages'[k])
              /\ i - j <= Len(messages'[j].toolCalls)
              /\ Answers(messages'[i], messages'[j].toolCalls[i - j])
     /\ pc' \in {"loop", "chunkLoop"} =>
          Cardinality({i \in 1..Len(messages') : IsInvokingTurn(messages'[i])})
            = obs'.toolRounds
     /\ (lastCall'.made /\ lastCall'.ok /\ Len(lastCall'.toolCalls) > 0
         /\ lastCall' # lastCall) =>
          /\ Len(messages') > Len(messages)
          /\ IsInvokingTurn(messages'[Len(messages) + 1])
          /\ messages'[Len(messages) + 1].toolCalls = lastCall'.toolCalls
     /\ pc \notin {"idle", "chunkStart"} => IsPrefix(messages, messages')]_vars

C13_Witness ==
  /\ pc = "loop"
  /\ obs.toolRounds = 2
  /\ Len(messages) >= 5
  /\ IsInvokingTurn(messages[2])
  /\ IsToolTurn(messages[3])
  /\ \E i \in 4..Len(messages) : IsInvokingTurn(messages[i])
  /\ IsToolTurn(messages[Len(messages)])

\* C14: the first adapter call of each chunk sends exactly one turn, the
\* initial prompt of that chunk; the synthesis conversation holds exactly
\* one turn, the synthesis prompt, and the call made on it carries no turn
\* of any chunk's investigation.
C14_NoLeakAcrossChunks ==
  [][/\ (pc = "chunkLoop" /\ obs.sinceReset = 0) =>
          /\ lastCall'.made
          /\ lastCall'.msgs = <<UserTurn(Txt("agenticPrompt", chunks[idx + 1]))>>
     /\ (pc' = "final" /\ needsChunking(commits)) =>
          messages' = <<SynthesisTurn>>
     /\ (lastCall'.made /\ lastCall'.options.requestJson
         /\ needsChunking(commits)) =>
          /\ \A i \in 1..Len(lastCall'.msgs) :
               /\ ~IsToolTurn(lastCall'.msgs[i])
               /\ ~IsInvokingTurn(lastCall'.msgs[i])
               /\ lastCall'.msgs[i].content.tag # "agenticPrompt"]_vars

C14_Witness ==
  /\ pc = "chunkLoop"
  /\ idx = 2
  /\ Len(chunkSummaries) = 2
  /\ obs.sinceReset = 1
  /\ lastCall.msgs = <<UserTurn(Txt("agenticPrompt", chunks[3]))>>
  /\ Len(chunks[3]) = 20

\* C16 (as stated): the list executeToolCalls returns has one text block
\* per invocation of the list it was given.
C16_OneBlockPerInvocation ==
  execPc = "returned" => Len(responses) = Len(toolCalls)

IsDeclaredTool(tc) == tc.name = "get_commit_details"

DeclaredCalls == SelectSeq(toolCalls, IsDeclaredTool)

\* the invocation cannot be served: no document, no list, or an unknown hash
CannotServe(tc) ==
  \/ tc.arguments.tag # "json"
  \/ \E i \in 1..Len(tc.arguments.data) : tc.arguments.data[i] \in UnknownHashes

\* C17: executeToolCalls never ends with an exception; it visits every
\* invocation of the list; for the invocations of the declared tool it
\* returns, in order, an error block where the arguments do not parse, carry
\* no list or a fetch fails, and the fetched details otherwise, so a failing
\* invocation does not keep a later one from being executed.
C17_ExecutorAbsorbsFailures ==
  /\ execPc # "thrown"
  /\ ~executeToolCallsThrows(toolCalls)
  /\ execPc = "returned" =>
       /\ tcIndex = Len(toolCalls)
       /\ responses = executeToolCalls(toolCalls)
       /\ fetched = FetchRequests(toolCalls)
       /\ Len(responses) = Len(DeclaredCalls)
       /\ \A i \in 1..Len(DeclaredCalls) :
            IF CannotServe(DeclaredCalls[i])
              THEN responses[i] = Txt("toolError", <<>>)
            ELSE responses[i] = Txt("toolResult", DeclaredCalls[i].arguments.data)

C17_Witness ==
  /\ execPc = "returned"
  /\ Len(toolCalls) = 3
  /\ \A i \in 1..3 : IsDeclaredTool(toolCalls[i])
  /\ toolCalls[1].arguments = Txt("garbage", <<>>)
  /\ toolCalls[2].arguments = Txt("json", <<0, 1>>)
  /\ toolCalls[3].arguments = Txt("json", <<1>>)
  /\ responses = <<Txt("toolError", <<>>), Txt("toolError", <<>>),
                   Txt("toolResult", <<1>>)>>
  /\ fetched = <<(<<0, 1>>), (<<1>>)>>

\* the error messages and statuses the wrapper is meant to retry on
RetryableMessages ==
  { <<"Rate", "Limit", "exceeded">>, <<"Quota", "exceeded">>,
    <<"HTTP", "429">>, <<"model", "is", "OVERLOADED">> }

Retryable(err) ==
  err.status = 429 \/ (err.hasMessage /\ err.message \in RetryableMessages)

\* C18: a failed remote call is followed by a wait and another attempt only
\* when its error is retryable; a retryable error is retried while attempts
\* remain; after a non-retryable failure the call fails with that very
\* error, and once the call has failed no further remote call is made.
C18_RetryOnlyRetryable ==
  [][/\ (retryPc = "try" /\ retryPc' = "wait") => Retryable(lastError')
     /\ (retryPc = "try" /\ remoteCalls' = remoteCalls + 1
         /\ retryPc' # "returned" /\ Retryable(lastError') /\ attempt < 10) =>
          retryPc' = "wait"
     /\ (retryPc = "try" /\ remoteCalls' = remoteCalls + 1
         /\ retryPc' # "returned" /\ ~Retryable(lastError')) =>
          /\ retryPc' = "failed"
          /\ thrownError'.thrown
          /\ thrownError'.last = lastError'
     /\ retryPc = "wait" => remoteCalls' = remoteCalls
     /\ retryPc \in {"failed", "returned"} =>
          remoteCalls' = remoteCalls /\ retryPc' = retryPc]_vars

C18_Witness ==
  /\ retryPc = "failed"
  /\ attempt = 3
  /\ remoteCalls = 3
  /\ lastError = [hasMessage |-> TRUE, message |-> <<"Internal", "error">>,
                  status |-> 500]
  /\ thrownError = [thrown |-> TRUE, exhausted |-> FALSE, last |-> lastError]

\* C19: one adapter call makes at most 10 remote calls, one per attempt;
\* when the tenth attempt fails as well, the call fails with the
\* "after 10 attempts" error that carries the error of the tenth attempt.
C19_AtMostTenCalls ==
  /\ remoteCalls <= 10
  /\ attempt <= 10
  /\ retryPc = "try" => remoteCalls = attempt - 1
  /\ retryPc \in {"wait", "failed", "returned"} => remoteCalls = attempt
  /\ (retryPc = "failed" /\ remoteCalls = 10) =>
       thrownError = [thrown |-> TRUE, exhausted |-> TRUE, last |-> lastError]
  /\ (retryPc = "failed" /\ remoteCalls < 10) =>
       /\ ~thrownError.exhausted
       /\ ~Retryable(lastError)

C19_Witness ==
  /\ retryPc = "failed"
  /\ remoteCalls = 10
  /\ Retryable(lastError)
  /\ thrownError.exhausted
  /\ thrownError.last = lastError
  /\ lastError.message = <<"model", "is", "OVERLOADED">>

\* C20: as long as no attempt has succeeded the conversation is the one the
\* call was entered with, and every attempt sends exactly that conversation;
\* a successful attempt appends one model turn and nothing else; a failed
\* call leaves the conversation as it was.
C20_ConversationKeptAcrossRetries ==
  [][/\ retryPc' \in {"try", "wait", "failed"} => messages' = contentsAtCall
     /\ remoteCalls' = remoteCalls + 1 => sent' = contentsAtCall
     /\ retryPc' = "returned" =>
          /\ Len(messages') = Len(contentsAtCall) + 1
          /\ SubSeq(messages', 1, Len(contentsAtCall)) = contentsAtCall
          /\ messages'[Len(messages')].role = "model"
     /\ contentsAtCall' = contentsAtCall]_vars

C20_Witness ==
  /\ retryPc = "returned"
  /\ attempt = 4
  /\ remoteCalls = 4
  /\ Len(contentsAtCall) = 3
  /\ sent = contentsAtCall
  /\ Len(messages) = 4
  /\ messages[4].role = "model"

\* C15 (as stated): every invocation a tools-enabled call returns is run by
\* the Tool Executor, in the step that follows the call, exactly as
\* returned; here for the phased variant, whose loops are capped at 5.
C15_EveryInvocationExecuted ==
  [][(pc = "toolLoop" /\ HasToolCalls(response)) =>
       /\ lastExec'.ran
       /\ lastExec'.calls = response.toolCalls
       /\ obs'.execCount = obs.execCount + 1]_vars

\* C36: in the phased variant every chunk (or the whole batch) runs the
\* phases 1 to 5 in this order; the conversation of a chunk starts anew with
\* the phase-1 prompt and only grows until its phase 5 has answered; the
\* tools are enabled in exactly the calls of phases 1 and 3; and the JSON
\* call is made only after phase 5.
C36_FivePhasesInOrder ==
  /\ [](lastCall.made =>
         /\ lastCall.options.enableTools <=> phase \in {1, 3}
         /\ lastCall.options.requestJson => phase = 5)
  /\ [][/\ phase' # phase =>
             \/ phase < 5 /\ phase' = phase + 1
             \/ phase \in {0, 5} /\ phase' = 1
        /\ (phase' = 1 /\ phase # 1) =>
             lastCall'.msgs = <<UserTurn(createPhase1Prompt(PhasedInput))>>
        /\ pc \in {"toolLoop", "phase3", "phase5"} =>
             IsPrefix(messages, messages')
        /\ (pc = "final" /\ ~needsChunking(commits)) =>
             IsPrefix(messages, lastCall'.msgs)]_vars

\* a chunked generation has run the five phases on both chunks, with a tool
\* round in the second, and its JSON call has answered
C36_Witness ==
  /\ pc = "done"
  /\ phase = 5
  /\ Len(chunkSummaries) = 2
  /\ obs.toolRounds > 0
  /\ lastCall.options.requestJson

\* a remote failure of the transient kind: rate limit, HTTP 429, overloaded
Transient(err) ==
  \/ Retryable(err)
  \/ err.message \in { <<"Nexos", "API", "error", "429">>,
                       <<"Nexos", "API", "error", "503">> }

\* the step makes a remote call and that call fails
RemoteCallFails ==
  retryPc = "try" /\ remoteCalls' = remoteCalls + 1 /\ retryPc' # "returned"

\* C21 (as stated): on either adapter a transient failure of the remote call
\* with attempts left does not fail callAPI: the call waits for another
\* attempt, and a call that returns has thrown nothing.
C21_TransientFailureAbsorbed ==
  [][/\ (RemoteCallFails /\ Transient(lastError') /\ attempt < 10) =>
          /\ retryPc' = "wait"
          /\ ~thrownError'.thrown
     /\ retryPc' = "returned" => ~thrownError'.thrown]_vars

\* C22 (as stated): a remote call aborted by its wall-clock timeout, with
\* attempts left, is followed by another attempt and does not fail callAPI.
C22_TimeoutIsRetried ==
  [][(RemoteCallFails /\ lastError' = AbortError /\ attempt < 10) =>
       /\ retryPc' = "wait"
       /\ ~thrownError'.thrown]_vars

\* the step makes an adapter call and the call is rejected
AdapterCallRejected == obs'.sinceReset = obs.sinceReset + 1 /\ ~lastCall'.ok

\* C23: a rejected adapter call ends the generation in that very step: the
\* failure is the provider's, no summary is returned, no tool is executed
\* in the step, and from then on the generation takes no step at all (no
\* adapter call, no tool execution).
C23_FailurePropagates ==
  [][/\ AdapterCallRejected =>
          /\ pc' = "failed"
          /\ error' = "provider"
          /\ result' = NoValue
          /\ lastExec' = lastExec
          /\ obs'.execCount = obs.execCount
     /\ pc' = "failed" => result' = NoValue
     /\ pc # "failed"]_vars

C23_Witness ==
  /\ pc = "failed"
  /\ error = "provider"
  /\ needsChunking(commits)
  /\ idx = 1
  /\ Len(chunkSummaries) = 1
  /\ obs.toolRounds = 2
  /\ lastCall.made
  /\ ~lastCall.ok
  /\ result = NoValue

\* a turn as the strategy means it: who speaks, what is said, which tools
\* are invoked, whatever the adapter's wire format
LogicalTurn(t) ==
  IF IsToolTurn(t)
    THEN [role |-> "tool", data |-> t.content.data, toolCalls |-> <<>>]
  ELSE [role |-> IF t.role \in {"assistant", "model"} THEN "assistant"
                 ELSE "user",
        data |-> t.content.data, toolCalls |-> t.toolCalls]

Logical(hist) == [i \in 1..Len(hist) |-> LogicalTurn(hist[i])]

\* C24 (as stated): driven by the same answers, the two generations are in
\* the same position with the same outcome, have made their last call with
\* the same options, have executed the same invocations, and their adapters
\* hold the same logical sequence of turns.
C24_AdaptersInterchangeable ==
  LET g == runs["gemini"]
      n == runs["nexos"]
  IN /\ g.pc = n.pc
     /\ g.error = n.error
     /\ g.result = n.result
     /\ g.iteration = n.iteration
     /\ g.options = n.options
     /\ g.exec = n.exec
     /\ Logical(g.hist) = Logical(n.hist)

\* the paired generations take the very steps of the orchestration
\* specification: what Iterate and FinalJson do to pc, messages, iteration,
\* error and result is what RunStep computes
RunStepAgreesWithActions ==
  [][(~needsChunking(commits) /\ pc \in {"loop", "final"}) =>
       \E out \in RemoteOutcomes(adapter, RunOptions([pc |-> pc,
                                                      iteration |-> iteration])) :
         LET st == RunStep(adapter,
                           [pc |-> pc, hist |-> messages,
                            iteration |-> iteration, error |-> error,
                            result |-> result, options |-> InvestigateOptions,
                            exec |-> lastExec], out)
         IN /\ pc' = st.pc
            /\ messages' = st.hist
            /\ error' = st.error
            /\ result' = st.result
            /\ lastCall'.options = st.options]_vars

IsKnownHash(h) == h \notin UnknownHashes

\* C25 (as stated): every served invocation ends with a result, and the
\* result holds the details of exactly the identifiers whose fetch succeeds.
C25_OneFailureDoesNotFailBatch ==
  \A k \in 1..Len(outcomes) :
    /\ outcomes[k].ok
    /\ outcomes[k].details = SelectSeq(fetchRound[k], IsKnownHash)

\* C26 (as stated): at no moment of a tool round are more than 5 detail
\* fetches under way, and a batch is started only when no fetch is.
C26_AtMostFiveInFlight ==
  [][/\ Cardinality(inFlight') <= 5
     /\ (fetchPc = "start" /\ fetchPc' = "await") => inFlight = {}]_vars

\* C27 (as stated): no invocation makes the executor request the details of
\* more than 10 identifiers.
C27_AtMostTenIdentifiers ==
  \A i \in 1..Len(fetched) : Len(fetched[i]) <= 10

\* the first turn of a conversation about chunk number k
ChunkPromptTurn(k) == UserTurn(Txt("agenticPrompt", chunks[k]))

\* C28: chunks are processed strictly in order. While the chunk loop runs,
\* the summaries recorded are those of the chunks before the current one;
\* every adapter call of the loop is made on the conversation of the first
\* chunk without a summary; a summary is recorded only as the answer to
\* such a call and is appended at the end; and the synthesis prompt lists
\* the chunk summaries in the order of the chunks, exactly one per chunk.
C28_ChunksInOrder ==
  [][/\ pc' \in {"chunkStart", "chunkLoop"} => Len(chunkSummaries') = idx'
     /\ pc = "chunkLoop" =>
          /\ lastCall'.made
          /\ lastCall'.msgs[1] = ChunkPromptTurn(Len(chunkSummaries) + 1)
          /\ Len(chunkSummaries) < Len(chunks)
     /\ chunkSummaries' # chunkSummaries =>
          \/ pc = "idle" /\ chunkSummaries' = <<>>
          \/ /\ pc = "chunkLoop"
             /\ lastCall'.ok
             /\ chunkSummaries' = Append(chunkSummaries, lastCall'.content)
     /\ (pc' = "final" /\ needsChunking(commits) /\ pc # "final") =>
          /\ Len(chunkSummaries) = Len(chunks)
          /\ messages' = <<SynthesisTurn>>
          /\ Len(SynthesisTurn.content.data) = Len(chunks)
          /\ \A k \in 1..Len(chunks) :
               SynthesisTurn.content.data[k] = chunkSummaries[k].data[1]]_vars

\* three chunks summarised in turn with differing summaries, all listed
C28_Witness ==
  /\ pc = "final"
  /\ Len(chunks) = 3
  /\ chunkSummaries = <<Txt("text", <<1>>), Txt("text", <<2>>), Txt("text", <<1>>)>>
  /\ messages = <<UserTurn(Txt("synthesisPrompt", <<1, 2, 1>>))>>
  /\ lastCall.msgs[1] = ChunkPromptTurn(3)

\* C29: right after resetMessages(), getMessages() of either adapter returns
\* the empty sequence, whatever the conversation held before.
C29_ResetEmptiesConversation ==
  lastOp.op = "resetMessages" => getMessages = <<>>

\* a Gemini conversation holding a model turn with tool invocations and a
\* function response is reset
C29_Witness ==
  /\ adapter = "gemini"
  /\ lastOp.op = "resetMessages"
  /\ Len(lastOp.before) = MaxTurns
  /\ \E i \in 1..Len(lastOp.before) : lastOp.before[i].kind = "functionResponse"
  /\ \E i \in 1..Len(lastOp.before) : lastOp.before[i].role = "model"
  /\ getMessages = <<>>

\* C30 (as stated): the text every prompt builder returns contains, in
\* full, the identifier of every commit of the batch it was given.
C30_EveryIdentifierEmbedded ==
  builder # "none" =>
    \A i \in 1..Len(promptInput) :
      includes(promptOutput, Hash(promptInput[i]))

\* C31 (as stated): every commit cited by the StructuredSummary a generation
\* returns is a commit of the batch the generation was given.
C31_CitedAreOfBatch ==
  pc = "done" =>
    \A i \in 1..Len(result.data) :
      \E j \in 1..Len(commits) : result.data[i] = commits[j]

\* C32: a construction for a provider other than gemini and nexos throws
\* and yields no service; every service that exists was constructed for
\* gemini or nexos, and none of its generation calls is the point where the
\* provider selection fails.
C32_SelectionFailsAtConstruction ==
  \A i \in 1..Len(services) :
    LET svc == services[i]
    IN /\ svc.arg \in {"openai", "anthropic", "mistral"} =>
            /\ ~svc.constructed
            /\ svc.message # "none"
            /\ svc.calls = <<>>
       /\ svc.constructed =>
            /\ svc.provider \in {"gemini", "nexos"}
            /\ svc.service = svc.provider
            /\ \A k \in 1..Len(svc.calls) :
                 /\ ~svc.calls[k].selectionFailed
                 /\ svc.calls[k].to = svc.provider

\* a construction for openai has thrown, and a nexos service constructed
\* after it has served both kinds of generation calls
C32_Witness ==
  /\ Len(services) = 2
  /\ services[1].arg = "openai"
  /\ ~services[1].constructed
  /\ services[1].message = "OpenAI provider not yet implemented"
  /\ services[2].provider = "nexos"
  /\ Len(services[2].calls) = 2
  /\ services[2].calls[1].method = "generateSummary"
  /\ services[2].calls[2].method = "generateWeeklySummary"

\* calls accounted for so far: 11 for every chunk left behind, the calls
\* of the chunk in hand, and the JSON call
CallsRank ==
  IF needsChunking(commits)
    THEN 11 * idx
         + (IF idx < Len(chunks) /\ pc \in {"chunkLoop", "failed"}
              THEN obs.loopCalls + obs.fallbackCalls ELSE 0)
         + obs.jsonCalls
  ELSE obs.loopCalls + obs.fallbackCalls + obs.jsonCalls

CallBound ==
  IF needsChunking(commits) THEN 11 * CeilDiv(Len(commits), 250) + 1 ELSE 11

\* C39: when every adapter call and fetch returns or fails in the end,
\* generateSummaryWithStrategy terminates, and it makes at most 11 adapter
\* calls without chunking and at most 11 * ceil(n / 250) + 1 with it: every
\* step that makes a call raises the rank by at least one, no step lowers
\* it, and the rank never exceeds the bound.
C39_TerminatesWithinCallBound ==
  /\ <>Terminal
  /\ [](CallsRank <= CallBound)
  /\ [][/\ CallsRank' >= CallsRank
        /\ (ChunkIterate \/ ChunkFallback \/ Iterate \/ FinalJson)
             => CallsRank' >= CallsRank + 1]_vars

\* a generation over three chunks has ended after a last chunk of ten
\* tool rounds and a fallback call
C39_Witness ==
  /\ pc = "done"
  /\ Len(chunks) = 3
  /\ obs.loopCalls = 10
  /\ obs.fallbackCalls = 1
  /\ obs.jsonCalls = 1

====
